---------------------------- MODULE Spec2Model ----------------------------
(***************************************************************************)
(* Neandertool (chebygame): the DSP engine (AnimatedParameter,             *)
(* FilterStage, FirstOrderLowPass, SecondOrderLowPass, FilterCascade,      *)
(* ChebyshevSolver) and the UI handlers that drive it.                     *)
(*                                                                         *)
(* JavaScript numbers are modelled in fixed point: the integer x stands    *)
(* for the number x / Scale.  A phase is kept in units of 1/Scale of a     *)
(* full turn, so that the code's 2 * Math.PI is the integer Scale.         *)
(* Objects live in `heap` (a stage's reference is its index there); the    *)
(* cascade's array `stages` holds references, as the JavaScript array      *)
(* does.                                                                   *)
(***************************************************************************)
EXTENDS Integers, Sequences, FiniteSets, TLC

VARIABLES
    heap,               \* every FilterStage object constructed so far
    nextId,             \* FilterStage.nextId (static)
    stages,             \* FilterCascade.stages: references into heap
    globalGainDb,       \* FilterCascade.globalGainDb
    animationSpeed,     \* FilterCascade.animationSpeed
    tolText,            \* text of #slider-tolerance-value (a whole percent)
    scrollSensitivity,  \* UIManager.scrollSensitivity
    speedText,          \* text of #slider-speed-value, as a number
    cards,              \* stages with a card (sliders, buttons) in #stages-list
    wheelEvents,        \* scroll-wheel events handled so far
    thrown,             \* exception raised by the last call ("none": it returned)
    solved,             \* the last ChebyshevSolver call: arguments and outcome
    sampled,            \* the last getFrequencyResponse call: arguments and result
    lastOp,             \* name of the operation that produced this state
    gotPoles,           \* the last getPoles call on a stage: the stage and the result
    game,               \* the fields of the GameManager
    intervals,          \* the intervals set with setInterval and not cleared
    popups,             \* the popups, and the parts of the game-over popup,
                        \* that are not hidden
    storage,            \* localStorage: the leaderboard entries, as parsed
    rendered,           \* the last render: whether it came in a running
                        \* round with the cascade meeting the constraints,
                        \* and the completeRound calls of the round so far
    saved               \* the last saveScore call: the leaderboard it read
                        \* and the name and score it was given

vars == <<heap, nextId, stages, globalGainDb, animationSpeed, tolText,
          scrollSensitivity, speedText, cards, wheelEvents, thrown, solved,
          sampled, lastOp, gotPoles, game, intervals, popups, storage,
          rendered, saved>>

\* the game, its timers, its popups and its leaderboard
gameVars == <<game, intervals, popups, storage, rendered, saved>>

\* what the operations of the filter page leave alone
otherVars == <<gotPoles, game, intervals, popups, storage, rendered,
              saved>>

\* what the operations of the game leave alone
filterVars == <<heap, nextId, animationSpeed, tolText, scrollSensitivity,
                speedText, wheelEvents, solved, sampled, gotPoles>>

---------------------------------------------------------------------------
(* Bounds of the exploration *)

MaxCreated == 2         \* FilterStage objects constructed in a run
MaxParamStages == 1     \* the same, where one parameter's life is explored
MaxUIStages == 1        \* the same, where the page alone is explored
MaxLen == 2             \* entries of cascade.stages
MaxWheelEvents == 2     \* scroll-wheel events in a run
MaxUIWheelEvents == 1   \* the same, where the page alone is explored
RoundingSlack == 4      \* last-digit units two orders of a product may differ by
MaxOrderLen == 3        \* stages made and chained when orders are compared
MaxDesignStages == 1    \* stages on the page when the solver is called again
MaxDesignCalls == 2     \* solver calls in that exploration
MaxMonoCalls == 2       \* getMinOrder calls when orders are compared
MaxSampleStages == 1    \* stages on the page when responses are sampled
MaxSampleCalls == 1     \* getFrequencyResponse calls in that exploration
MaxResampleStages == 1  \* stages on the page when the cascade is sampled again
MaxResampleCalls == 2   \* samplings of the cascade in that exploration
MaxPlayStages == 1      \* stages on the page when play and pause are explored
MaxPlayWheelEvents == 1 \* wheel events in that exploration
MaxAnimStages == 1      \* stages on the page when animation is explored
MaxAnimLen == 2         \* entries of the cascade when animation is explored
MaxAnimWheelEvents == 1 \* wheel events when animation is explored
MaxAnimPhase == 2500    \* largest phase, before it is wrapped, in that exploration
MaxPhase == 1500        \* largest phase explored (one and a half turns)
MantissaBits == 12      \* bits of a floating-point mantissa (a double has 53)
MaxPoleStages == 2      \* stages made when getPoles is explored

---------------------------------------------------------------------------
(* Fixed-point arithmetic *)

Scale == 10 * 100

Max(a, b) == IF a >= b THEN a ELSE b
Min(a, b) == IF a <= b THEN a ELSE b
Abs(a) == IF a >= 0 THEN a ELSE -a

\* the element of a one-element set: Only({F(x) : x \in {e}}) is F of the
\* value of e, e evaluated once (const x = e; ...)
Only(S) == CHOOSE r \in S : TRUE

\* n / d rounded to the nearest integer (d > 0)
RoundDiv(n, d) == (n + d \div 2) \div d

\* a * b and a / b (b # 0) on fixed-point numbers
Mul(a, b) == RoundDiv(a * b, Scale)
Div(a, b) == IF b > 0 THEN RoundDiv(a * Scale, b) ELSE -RoundDiv(a * Scale, -b)

\* Math.round of a fixed-point number, as a whole number
MathRound(a) == RoundDiv(a, Scale)

\* Math.sin on [0, pi/2], the argument given as t/Scale turns, 4 * t <= Scale
SinQuarter(t) ==
    IF 4 * t = Scale THEN Scale
    ELSE LET x  == RoundDiv(t * 6283, Scale)
             x2 == Mul(x, x)
             x3 == Mul(x, x2)
             x5 == Mul(x3, x2)
             x7 == Mul(x5, x2)
         IN  x - RoundDiv(x3, 6) + RoundDiv(x5, 120) - RoundDiv(x7, 5040)

\* Math.sin(phase), phase given as p/Scale turns
MathSin(p) ==
    LET r == p % Scale
    IN  IF 4 * r <= Scale THEN SinQuarter(r)
        ELSE IF 2 * r <= Scale THEN SinQuarter(Scale \div 2 - r)
        ELSE IF 4 * r <= 3 * Scale THEN -SinQuarter(r - Scale \div 2)
        ELSE -SinQuarter(Scale - r)

\* Math.sqrt of a >= 0: the largest r with r * r <= a * Scale
MathSqrt(a) ==
    LET RECURSIVE Bisect(_, _)
        Bisect(lo, hi) ==
            IF hi - lo <= 1 THEN lo
            ELSE LET mid == (lo + hi) \div 2
                 IN  IF mid * mid <= a * Scale THEN Bisect(mid, hi)
                     ELSE Bisect(lo, mid)
    IN  Bisect(0, 46340)

Ln2 == 693
Ln10 == 2303

\* Math.log of a > 0: a = m * 2^k with 1 <= m < 2, and
\* log(m) = 2 * atanh((m - 1) / (m + 1)) by its series
MathLog(a) ==
    LET RECURSIVE Reduce(_, _)
        Reduce(m, k) ==
            IF m >= 2 * Scale THEN Reduce(RoundDiv(m, 2), k + 1)
            ELSE IF m < Scale THEN Reduce(m * 2, k - 1)
            ELSE <<m, k>>
        mk == Reduce(a, 0)
        z  == Div(mk[1] - Scale, mk[1] + Scale)
        z2 == Mul(z, z)
        z3 == Mul(z, z2)
        z5 == Mul(z3, z2)
        z7 == Mul(z5, z2)
    IN  2 * (z + RoundDiv(z3, 3) + RoundDiv(z5, 5) + RoundDiv(z7, 7))
          + mk[2] * Ln2

\* Math.exp: x = k * ln 2 + r, and exp(r) by its series
MathExp(x) ==
    LET k  == RoundDiv(x, Ln2)
        r  == x - k * Ln2
        r2 == Mul(r, r)
        r3 == Mul(r2, r)
        r4 == Mul(r3, r)
        e  == Scale + r + RoundDiv(r2, 2) + RoundDiv(r3, 6) + RoundDiv(r4, 24)
        RECURSIVE Shift(_, _)
        Shift(v, n) ==
            IF n = 0 THEN v
            ELSE IF n > 0 THEN Shift(v * 2, n - 1)
            ELSE Shift(RoundDiv(v, 2), n + 1)
    IN  Shift(e, k)

\* Math.pow(10, x)
MathPow10(x) == IF x = 0 THEN Scale ELSE MathExp(Mul(x, Ln10))

\* Math.cos(phase), phase given as p/Scale turns
MathCos(p) == MathSin(p + Scale \div 4)

\* Math.acos(x), -1 <= x <= 1, as a/Scale turns: the first a of the half turn
\* where the cosine is down to x
MathAcos(x) ==
    LET RECURSIVE Bisect(_, _)
        Bisect(lo, hi) ==
            IF hi - lo <= 1 THEN hi
            ELSE IF MathCos((lo + hi) \div 2) <= x
                 THEN Bisect(lo, (lo + hi) \div 2)
                 ELSE Bisect((lo + hi) \div 2, hi)
    IN  IF x >= Scale THEN 0 ELSE Only({Bisect(0, Scale \div 2)})

MathSinh(x) == RoundDiv(MathExp(x) - MathExp(-x), 2)
MathCosh(x) == RoundDiv(MathExp(x) + MathExp(-x), 2)
\* Math.asinh(x), x >= 0, and Math.acosh(x), x >= 1; from 40 on both are
\* ln(2x) to within the resolution
MathAsinh(x) ==
    IF x >= 40 * Scale THEN MathLog(2 * x)
    ELSE MathLog(x + MathSqrt(Mul(x, x) + Scale))
MathAcosh(x) ==
    IF x >= 40 * Scale THEN MathLog(2 * x)
    ELSE MathLog(x + MathSqrt(Mul(x, x) - Scale))

---------------------------------------------------------------------------
(* JavaScript numbers with their special values.  A finite number is        *)
(* Fin(x), x in fixed point; the sign of a zero is not kept.                *)

Fin(x) == [k |-> "fin", v |-> x]
NaN == [k |-> "nan", v |-> 0]
Infinity == [k |-> "inf", v |-> 1]
NegInfinity == [k |-> "inf", v |-> -1]
\* the value of a property the object does not have
Undefined == [k |-> "undefined", v |-> 0]

IsFin(a) == a.k = "fin"
IsNaN(a) == a.k = "nan"
IsInf(a) == a.k = "inf"
Sign(x) == IF x > 0 THEN 1 ELSE IF x < 0 THEN -1 ELSE 0
\* ToNumber: undefined converts to NaN
ToNumber(a) == IF a.k = "undefined" THEN NaN ELSE a

JNeg(a0) ==
    LET a == ToNumber(a0)
    IN  IF IsNaN(a) THEN NaN ELSE [a EXCEPT !.v = -a.v]

JAdd(a0, b0) ==
    LET a == ToNumber(a0)
        b == ToNumber(b0)
    IN  IF IsNaN(a) \/ IsNaN(b) THEN NaN
        ELSE IF IsInf(a) /\ IsInf(b) THEN (IF a.v = b.v THEN a ELSE NaN)
        ELSE IF IsInf(a) THEN a
        ELSE IF IsInf(b) THEN b
        ELSE Fin(a.v + b.v)

JSub(a, b) == JAdd(a, JNeg(b))

JMul(a0, b0) ==
    LET a == ToNumber(a0)
        b == ToNumber(b0)
    IN  IF IsNaN(a) \/ IsNaN(b) THEN NaN
        ELSE IF IsInf(a) \/ IsInf(b)
             THEN (IF Sign(a.v) * Sign(b.v) = 0 THEN NaN
                   ELSE [k |-> "inf", v |-> Sign(a.v) * Sign(b.v)])
        ELSE Fin(Mul(a.v, b.v))

JDiv(a0, b0) ==
    LET a == ToNumber(a0)
        b == ToNumber(b0)
    IN  IF IsNaN(a) \/ IsNaN(b) THEN NaN
        ELSE IF IsInf(a)
             THEN (IF IsInf(b) THEN NaN
                   ELSE [k |-> "inf", v |-> IF b.v < 0 THEN -a.v ELSE a.v])
        ELSE IF IsInf(b) THEN Fin(0)
        ELSE IF b.v = 0
             THEN (IF a.v = 0 THEN NaN ELSE [k |-> "inf", v |-> Sign(a.v)])
        ELSE Fin(Div(a.v, b.v))

\* a > b and a < b: false when either side is NaN
JGt(a0, b0) ==
    LET a == ToNumber(a0)
        b == ToNumber(b0)
    IN  IF IsNaN(a) \/ IsNaN(b) THEN FALSE
        ELSE IF IsInf(a) THEN a.v = 1 /\ ~(IsInf(b) /\ b.v = 1)
        ELSE IF IsInf(b) THEN b.v = -1
        ELSE a.v > b.v

JLt(a, b) == JGt(b, a)
\* a <= b: a < b or a == b, false when either side is NaN
JLe(a, b) == JLt(a, b) \/ (~IsNaN(ToNumber(a)) /\ ToNumber(a) = ToNumber(b))

JAbs(a0) ==
    LET a == ToNumber(a0)
    IN  IF IsNaN(a) THEN NaN ELSE IF IsInf(a) THEN Infinity ELSE Fin(Abs(a.v))

JSqrt(a0) ==
    LET a == ToNumber(a0)
    IN  IF IsNaN(a) THEN NaN
        ELSE IF IsInf(a) THEN (IF a.v = 1 THEN Infinity ELSE NaN)
        ELSE IF a.v < 0 THEN NaN
        ELSE Fin(MathSqrt(a.v))

\* Math.ceil, the result still in fixed point
JCeil(a0) ==
    LET a == ToNumber(a0)
    IN  IF IsFin(a) THEN Fin(-((-a.v) \div Scale) * Scale) ELSE a

JPow10(a0) ==
    LET a == ToNumber(a0)
    IN  IF IsNaN(a) THEN NaN
        ELSE IF IsInf(a) THEN (IF a.v = 1 THEN Infinity ELSE Fin(0))
        ELSE Fin(MathPow10(a.v))

JLog10(a0) ==
    LET a == ToNumber(a0)
    IN  IF IsNaN(a) THEN NaN
        ELSE IF IsInf(a) THEN (IF a.v = 1 THEN Infinity ELSE NaN)
        ELSE IF a.v < 0 THEN NaN
        ELSE IF a.v = 0 THEN NegInfinity
        ELSE Fin(Div(MathLog(a.v), Ln10))

JAcosh(a0) ==
    LET a == ToNumber(a0)
    IN  IF IsNaN(a) THEN NaN
        ELSE IF IsInf(a) THEN (IF a.v = 1 THEN Infinity ELSE NaN)
        ELSE IF a.v < Scale THEN NaN
        ELSE Fin(MathAcosh(a.v))

JAsinh(a0) ==
    LET a == ToNumber(a0)
    IN  IF IsFin(a) THEN Fin(Sign(a.v) * MathAsinh(Abs(a.v))) ELSE a

\* Math.cos(n * Math.acos(x)): not a number unless n and x are finite and
\* x is in [-1, 1]
JCosNAcos(n0, x0) ==
    LET n == ToNumber(n0)
        x == ToNumber(x0)
    IN  IF IsFin(n) /\ IsFin(x) /\ Abs(x.v) <= Scale
        THEN Fin(MathCos(Mul(n.v, MathAcos(x.v))))
        ELSE NaN

JCosh(a0) ==
    LET a == ToNumber(a0)
    IN  IF IsNaN(a) THEN NaN
        ELSE IF IsInf(a) THEN Infinity
        ELSE Fin(MathCosh(a.v))

\* a pole object whose im is its omega
PropImIsOmega(obj, name) ==
    IF name = "im" /\ "omega" \in DOMAIN obj THEN obj.omega
    ELSE IF name \in DOMAIN obj THEN obj[name] ELSE Undefined

\* the property `name` of a record-shaped object
Prop(obj, name) == IF name \in DOMAIN obj THEN obj[name] ELSE Undefined

---------------------------------------------------------------------------
(* AnimatedParameter *)

\* the tolerance autoRange reads from the DOM: parseFloat(text) / 100
ToleranceOf(text) == (text * Scale) \div 100

NoSlider == [has |-> FALSE, min |-> 0, max |-> 0]

\* a range that frames value by the default tolerance whatever the text
autoRangeDefault(p, text) ==
    [p EXCEPT !.min = Max(0, Mul(p.value, Scale - 200)),
              !.max = Mul(p.value, Scale + 200)]

\* autoRange(): min and max frame value by the tolerance; nothing else changes
autoRange(p, text) ==
    LET tolerance == ToleranceOf(text)
    IN  [p EXCEPT !.min = Max(0, Mul(p.value, Scale - tolerance)),
                  !.max = Mul(p.value, Scale + tolerance)]

\* new AnimatedParameter(value)
AnimatedParameter(value, text) ==
    autoRange([value |-> value, min |-> 0, max |-> 0, isAnimating |-> FALSE,
               phase |-> 0, slider |-> NoSlider], text)

\* setRange(min, max)
setRange(p, min, max) ==
    LET newMin == Max(0, min)
        v1 == IF p.value < newMin THEN newMin ELSE p.value
        v2 == IF v1 > max THEN max ELSE v1
    IN  [p EXCEPT !.min = newMin, !.max = max, !.value = v2]

\* an update that does not look at isAnimating
updateAlways(p, deltaTime, speed) ==
    LET ph1 == p.phase + Mul(deltaTime, speed)
        ph2 == IF ph1 > Scale THEN ph1 - Scale ELSE ph1
        normalized == RoundDiv(MathSin(ph2) + Scale, 2)
    IN  [p EXCEPT !.phase = ph2,
                  !.value = p.min + Mul(normalized, p.max - p.min)]

\* update(deltaTime, speed)
update(p, deltaTime, speed) ==
    IF ~p.isAnimating THEN p
    ELSE LET ph1 == p.phase + Mul(deltaTime, speed)
             ph2 == IF ph1 > Scale THEN ph1 - Scale ELSE ph1
             normalized == RoundDiv(MathSin(ph2) + Scale, 2)
         IN  [p EXCEPT !.phase = ph2,
                       !.value = p.min + Mul(normalized, p.max - p.min)]

startAnimation(p) == [p EXCEPT !.isAnimating = TRUE]
stopAnimation(p) == [p EXCEPT !.isAnimating = FALSE]

---------------------------------------------------------------------------
(* FilterStage, FirstOrderLowPass, SecondOrderLowPass *)

\* the counter read but not advanced
ReuseId(counter) == [id |-> counter, nextId |-> counter]

\* this.id = FilterStage.nextId++: the id taken and the counter left
TakeId(counter) == [id |-> counter, nextId |-> counter + 1]

\* new FirstOrderLowPass(f0): super('pole') takes the id, then f0 is made
FirstOrderLowPass(f0, counter, text) ==
    [type |-> "pole", id |-> TakeId(counter).id, active |-> TRUE,
     f0 |-> AnimatedParameter(f0, text)]

\* new SecondOrderLowPass(f0, Q)
SecondOrderLowPass(f0, Q, counter, text) ==
    [type |-> "biquad", id |-> TakeId(counter).id, active |-> TRUE,
     f0 |-> AnimatedParameter(f0, text), Q |-> AnimatedParameter(Q, text)]

\* getParameters(): the names of the stage's parameters, in order
getParameters(s) == IF s.type = "pole" THEN <<"f0">> ELSE <<"f0", "Q">>

ParamNames(s) == {getParameters(s)[i] : i \in 1..Len(getParameters(s))}

\* FirstOrderLowPass.getResponse(omega) and SecondOrderLowPass.getResponse(omega)
StageResponse(s, omega) ==
    IF s.type = "pole"
    THEN LET f0    == Fin(s.f0.value)
             denom == JAdd(JMul(f0, f0), JMul(omega, omega))
         IN  [re |-> JDiv(JMul(f0, f0), denom),
              im |-> JDiv(JMul(JNeg(f0), omega), denom)]
    ELSE LET f0         == Fin(s.f0.value)
             Q          == Fin(s.Q.value)
             realPart   == JSub(JMul(f0, f0), JMul(omega, omega))
             imagPart   == JMul(JDiv(f0, Q), omega)
             denomMagSq == JAdd(JMul(realPart, realPart), JMul(imagPart, imagPart))
             num        == JMul(f0, f0)
         IN  [re |-> JDiv(JMul(num, realPart), denomMagSq),
              im |-> JDiv(JNeg(JMul(num, imagPart)), denomMagSq)]

Refs == 1..Len(heap)

\* the references cascade.stages holds
InCascade == {stages[i] : i \in 1..Len(stages)}

\* every (stage, parameter) pair of the heap
ParamsOf(refs) == {<<r, n>> \in refs \X {"f0", "Q"} : n \in ParamNames(heap[r])}

---------------------------------------------------------------------------
(* ChebyshevSolver *)

\* the quotient of getMinOrder turned upside down
getMinOrderInverted(wp, ws, Ap, As) ==
    LET epsilon == JSqrt(JSub(JPow10(JDiv(Ap, Fin(10 * Scale))), Fin(Scale)))
        A       == JPow10(JDiv(As, Fin(20 * Scale)))
        ratio   == JDiv(ws, wp)
        n       == JDiv(JAcosh(ratio),
                        JAcosh(JDiv(JSqrt(JSub(JMul(A, A), Fin(Scale))), epsilon)))
    IN  JCeil(n)

\* getMinOrder(wp, ws, Ap, As)
getMinOrder(wp, ws, Ap, As) ==
    LET epsilon == JSqrt(JSub(JPow10(JDiv(Ap, Fin(10 * Scale))), Fin(Scale)))
        A       == JPow10(JDiv(As, Fin(20 * Scale)))
        ratio   == JDiv(ws, wp)
        n       == JDiv(JAcosh(JDiv(JSqrt(JSub(JMul(A, A), Fin(Scale))), epsilon)),
                        JAcosh(ratio))
    IN  JCeil(n)

\* epsilon, as getFrequencyResponse and getBestSolutionStages compute it
Epsilon(Ap) == JSqrt(JSub(JPow10(JDiv(Ap, Fin(10 * Scale))), Fin(Scale)))

\* the k-th pole getPoles pushes, n a whole number >= 1: {sigma, omega}
Pole(k, n, epsilon, wp) ==
    LET gamma == RoundDiv(MathAsinh(Div(Scale, epsilon)), n)
        theta == RoundDiv((2 * k - 1) * Scale, 4 * n)
    IN  [sigma |-> Fin(-Mul(Mul(wp, MathSinh(gamma)), MathSin(theta))),
         omega |-> Fin(Mul(Mul(wp, MathCosh(gamma)), MathCos(theta)))]

\* getPoles(n, epsilon, wp): the loop runs while k <= n, so not at all for
\* NaN, and without end for Infinity
getPoles(n, epsilon, wp) ==
    IF IsNaN(n) THEN [ends |-> TRUE, poles |-> <<>>]
    ELSE IF IsInf(n) THEN [ends |-> n.v < 0, poles |-> <<>>]
    ELSE IF n.v < Scale THEN [ends |-> TRUE, poles |-> <<>>]
    ELSE [ends |-> TRUE,
          poles |-> [k \in 1..(n.v \div Scale) |->
                        Pole(k, n.v \div Scale, epsilon.v, wp.v)]]

\* 1e-10, below the resolution of the fixed point
Tiny == Fin(0)

\* n % 2 === 0
IsEven(n) == IsFin(n) /\ (n.v \div Scale) % 2 = 0 /\ n.v % Scale = 0

\* the gain taken off whatever the order
DcCompensationAlways(n, Ap) == JNeg(Ap)

\* let globalGainDb = 0; if (n % 2 === 0) globalGainDb = -Ap
DcCompensation(n, Ap) == IF IsEven(n) THEN JNeg(Ap) ELSE Fin(0)

\* for (const p of poles) if (p.im > 0) stages.push(new SecondOrderLowPass(f0, Q)),
\* from pole i on; acc is the heap, the id counter and the stages so far
RECURSIVE PairStages(_, _, _, _)
PairStages(poles, i, acc, text) ==
    IF i > Len(poles) THEN acc
    ELSE IF JGt(Prop(poles[i], "im"), Fin(0))
    THEN LET f0 == JSqrt(JAdd(JMul(poles[i].sigma, poles[i].sigma),
                              JMul(poles[i].omega, poles[i].omega)))
             Q  == JDiv(f0, JMul(Fin(-2 * Scale), poles[i].sigma))
         IN  PairStages(poles, i + 1,
                [heap |-> Append(acc.heap,
                             SecondOrderLowPass(f0.v, Q.v, acc.id, text)),
                 id |-> TakeId(acc.id).nextId,
                 stages |-> Append(acc.stages, Len(acc.heap) + 1)], text)
    ELSE PairStages(poles, i + 1, acc, text)

\* for (const p of poles) if (Math.abs(p.im) < 1e-10) stages.push(new FirstOrderLowPass(f0))
RECURSIVE RealStages(_, _, _, _)
RealStages(poles, i, acc, text) ==
    IF i > Len(poles) THEN acc
    ELSE IF JLe(JAbs(Prop(poles[i], "im")), Tiny)
    THEN RealStages(poles, i + 1,
            [heap |-> Append(acc.heap,
                         FirstOrderLowPass(JNeg(poles[i].sigma).v, acc.id, text)),
             id |-> TakeId(acc.id).nextId,
             stages |-> Append(acc.stages, Len(acc.heap) + 1)], text)
    ELSE RealStages(poles, i + 1, acc, text)

\* getBestSolutionStages(wp, ws, Ap, As), from heap h and id counter id:
\* what it returns and the heap and counter it leaves
getBestSolutionStages(wp, ws, Ap, As, h, id, text) ==
    Only({Only({
        IF ~got.ends
        THEN [ends |-> FALSE, heap |-> h, id |-> id, stages |-> <<>>,
              globalGainDb |-> Fin(0)]
        ELSE Only({[ends |-> TRUE, heap |-> built.heap, id |-> built.id,
                    stages |-> built.stages,
                    globalGainDb |-> DcCompensation(n, Ap)] :
                  built \in {RealStages(got.poles, 1,
                                PairStages(got.poles, 1,
                                    [heap |-> h, id |-> id, stages |-> <<>>],
                                    text), text)}}) :
        got \in {getPoles(n, Epsilon(Ap), wp)}}) :
        n \in {getMinOrder(wp, ws, Ap, As)}})

---------------------------------------------------------------------------
(* Inputs *)

\* arguments of direct constructor and setRange calls
F0Inputs == {-1000, 0, 2000}
QInputs == {0, 500}
\* f0 of the second-order stages the cascade is explored with
BiquadF0Inputs == {2000}
RangeInputs == {-500, 3000}
\* frame times: a quarter second, one and a half seconds
DeltaTimes == {250, 1500}
PlayDeltaTimes == {500}
PlayF0Inputs == {-1000}
Directions == {-1, 1}
SensitivityInputs == {1000, 3000}
InitialTolerances == {1, 20, 100}
\* frequencies the responses are compared at
Omegas == {0, 500, 1000}
OrderF0Inputs == {1000, 3000}
\* global gains the gain slider is set to
GainInputs == {-3000}

NotCalled ==
    [call |-> "none", wp |-> 0, ws |-> 0, Ap |-> 0, As |-> 0, ends |-> TRUE,
     order |-> Undefined, stages |-> <<>>, globalGainDb |-> Undefined,
     calls |-> 0]
\* f0 and Q of the stages whose poles are computed: Q far below, just below,
\* at, just above and above one half
PoleF0Inputs == {100, 1000}
PoleQInputs == {2, 400, 500, 501, 707}
\* new GameManager(); constraints is <<>> for null or <<c>> for an object, of
\* which minOrder is kept; timerInterval is 0 for null or the interval's id
NewGameManager ==
    [mode |-> "sandbox", subMode |-> "undefined", score |-> 0, round |-> 1,
     timeRemaining |-> 60, timerInterval |-> 0, constraints |-> <<>>,
     isGameOver |-> FALSE, isPaused |-> FALSE]
\* no saveScore call yet
NotSaved == [before |-> <<>>, entry |-> <<>>]
\* no getPoles call yet
NoPoles == [target |-> <<>>, result |-> <<>>]
NotSampled ==
    [call |-> "none", target |-> <<>>, freqMin |-> 0, freqMax |-> 0,
     numPoints |-> 0, response |-> <<>>, order |-> Undefined,
     epsilon |-> Undefined, calls |-> 0]
\* plot ranges and point counts the responses are sampled with
FreqMinInputs == {0, 500}
FreqMaxInputs == {1000, 2000}
NumPointsInputs == {0, 1, 2}
\* specifications whose ideal response is sampled: of order 2, of order 3,
\* and one with no ripple allowed, of infinite order
SampleDesigns ==
    {[wp |-> 1000, ws |-> 3000, Ap |-> 3000, As |-> 20000],
     [wp |-> 1000, ws |-> 2000, Ap |-> 3000, As |-> 20000],
     [wp |-> 1000, ws |-> 3000, Ap |-> 0, As |-> 20000]}
\* specifications whose minimum orders are compared
MonoWpInputs == {1000, 2000}
MonoWsInputs == {1500, 2000, 3000, 4000}
MonoApInputs == {500, 3000}
MonoAsInputs == {1000, 10000, 20000, 25000, 30000}
\* specifications handed to the solver, feasible and not
WpInputs == {1000, 2000}
WsInputs == {1000, 2000, 3000}
ApInputs == {-1000, 0, 3000}
AsInputs == {2000, 20000, 30000}
\* constraints generateConstraints can draw: wp a whole number, ws = wp * gap
\* with gap in [1.5, 3), Ap = 3, As in [25, 35)
GameConstraints ==
    {[wp |-> wp, ws |-> Mul(wp, gap), Ap |-> 3000, As |-> As] :
        wp \in {1000, 2000}, gap \in {1500, 2000, 2500}, As \in {25000, 30000}}


MAX_STAGES == 5
DefaultF0 == 1000
DefaultQ == 707
DefaultTolerance == 20
DefaultSensitivity == 3000
DefaultSpeed == 1000
ParamStep == 50
MinWheelValue == 10
SliderStep == 10

---------------------------------------------------------------------------
(* FilterCascade *)

\* the stage array after addStage(stage)
addStage(arr, ref) == Append(arr, ref)

\* a removal by position instead of by id
removeStageAt(arr, id) ==
    [i \in 1..(Len(arr) - (IF id \in 1..Len(arr) THEN 1 ELSE 0)) |->
        IF i < id THEN arr[i] ELSE arr[i + 1]]

\* the stage array after removeStage(id)
removeStage(arr, id) == SelectSeq(arr, LAMBDA r : heap[r].id # id)

\* a clearing that forgets the gain
clearStagesKeepsGain(gainDb) == [stages |-> <<>>, globalGainDb |-> gainDb]

\* FilterCascade.clearStages(): the cascade's fields after the call
clearStages(gainDb) == [stages |-> <<>>, globalGainDb |-> 0]

\* no stage passed over
SkippedNever(stage) == FALSE

\* if (!stage.active) continue
Skipped(stage) == ~stage.active

\* a product that keeps the last active stage only
CascadeResponseLast(arr, h, gainDb, omega) ==
    LET act == SelectSeq(arr, LAMBDA r : ~Skipped(h[r]))
        prod == IF act = <<>> THEN [re |-> Fin(Scale), im |-> Fin(0)]
                ELSE StageResponse(h[act[Len(act)]], omega)
        linearGain == JPow10(JDiv(Fin(gainDb), Fin(20 * Scale)))
    IN  [re |-> JMul(prod.re, linearGain), im |-> JMul(prod.im, linearGain)]

\* FilterCascade.getResponse(omega), of stage array arr over heap h
CascadeResponse(arr, h, gainDb, omega) ==
    LET RECURSIVE Product(_, _)
        Product(i, acc) ==
            IF i > Len(arr) THEN acc
            ELSE IF Skipped(h[arr[i]]) THEN Product(i + 1, acc)
            ELSE Only({Product(i + 1,
                        [re |-> JSub(JMul(a.re, hh.re), JMul(a.im, hh.im)),
                         im |-> JAdd(JMul(a.re, hh.im), JMul(a.im, hh.re))]) :
                       hh \in {StageResponse(h[arr[i]], omega)}, a \in {acc}})
        prod == Product(1, [re |-> Fin(Scale), im |-> Fin(0)])
        linearGain == JPow10(JDiv(Fin(gainDb), Fin(20 * Scale)))
    IN  [re |-> JMul(prod.re, linearGain), im |-> JMul(prod.im, linearGain)]

\* FilterCascade.getMagnitude(omega)
CascadeMagnitude(arr, h, gainDb, omega) ==
    LET hh == CascadeResponse(arr, h, gainDb, omega)
    IN  JSqrt(JAdd(JMul(hh.re, hh.re), JMul(hh.im, hh.im)))

\* FilterCascade.getMagnitudeDb(omega)
CascadeMagnitudeDb(arr, h, gainDb, omega) ==
    LET mag == CascadeMagnitude(arr, h, gainDb, omega)
    IN  IF JGt(mag, Tiny) THEN JMul(Fin(20 * Scale), JLog10(mag))
        ELSE Fin(-200 * Scale)

---------------------------------------------------------------------------
(* Binary floating point, for getPoles: a number is s * m * 2^e with a
   mantissa m of MantissaBits bits, every operation rounded to the nearest
   such number, ties to even *)

Pow2(n) == 2 ^ n

\* the number of bits of M >= 0
BitLen(M) ==
    LET RECURSIVE Len2(_)
        Len2(x) == IF x = 0 THEN 0 ELSE 1 + Len2(x \div 2)
    IN  Len2(M)

FZero == [k |-> "fin", s |-> 1, m |-> 0, e |-> 0]
FNaN == [k |-> "nan", s |-> 1, m |-> 0, e |-> 0]
FInf(s) == [k |-> "inf", s |-> s, m |-> 0, e |-> 0]
FIsZero(a) == a.k = "fin" /\ a.m = 0

\* s * M * 2^E (and a little more when sticky) rounded to MantissaBits bits
FRound(s, M, E, sticky) ==
    IF M = 0 THEN FZero
    ELSE Only({
        IF n <= MantissaBits
        THEN [k |-> "fin", s |-> s, m |-> M * Pow2(MantissaBits - n),
              e |-> E - (MantissaBits - n)]
        ELSE LET sh   == n - MantissaBits
                 q    == M \div Pow2(sh)
                 r    == M % Pow2(sh)
                 half == Pow2(sh - 1)
                 up   == r > half \/ (r = half /\ (sticky \/ q % 2 = 1))
                 q1   == IF up THEN q + 1 ELSE q
             IN  IF q1 = Pow2(MantissaBits)
                 THEN [k |-> "fin", s |-> s, m |-> Pow2(MantissaBits - 1),
                       e |-> E + sh + 1]
                 ELSE [k |-> "fin", s |-> s, m |-> q1, e |-> E + sh] :
        n \in {BitLen(M)}})

\* a whole number, and a fixed-point number v / Scale, as floating point
FromInt(n) == FRound(IF n < 0 THEN -1 ELSE 1, Abs(n), 0, FALSE)

FNeg(a) == IF a.k = "nan" \/ FIsZero(a) THEN a ELSE [a EXCEPT !.s = -a.s]

FMul(a, b) ==
    IF a.k = "nan" \/ b.k = "nan" THEN FNaN
    ELSE IF a.k = "inf" \/ b.k = "inf"
         THEN (IF FIsZero(a) \/ FIsZero(b) THEN FNaN ELSE FInf(a.s * b.s))
    ELSE FRound(a.s * b.s, a.m * b.m, a.e + b.e, FALSE)

FDiv(a, b) ==
    IF a.k = "nan" \/ b.k = "nan" THEN FNaN
    ELSE IF a.k = "inf" THEN (IF b.k = "inf" THEN FNaN ELSE FInf(a.s * b.s))
    ELSE IF b.k = "inf" THEN FZero
    ELSE IF FIsZero(b) THEN (IF FIsZero(a) THEN FNaN ELSE FInf(a.s * b.s))
    ELSE IF FIsZero(a) THEN FZero
    ELSE FRound(a.s * b.s, (a.m * Pow2(MantissaBits + 2)) \div b.m,
                a.e - b.e - (MantissaBits + 2),
                (a.m * Pow2(MantissaBits + 2)) % b.m # 0)

FromFixed(v) == FDiv(FromInt(v), FromInt(Scale))

FAdd(a, b) ==
    IF a.k = "nan" \/ b.k = "nan" THEN FNaN
    ELSE IF a.k = "inf"
         THEN (IF b.k = "inf" /\ b.s # a.s THEN FNaN ELSE a)
    ELSE IF b.k = "inf" THEN b
    ELSE IF FIsZero(a) THEN b
    ELSE IF FIsZero(b) THEN a
    ELSE LET x == IF a.e >= b.e THEN a ELSE b
             y == IF a.e >= b.e THEN b ELSE a
             d == x.e - y.e
         IN  IF d > MantissaBits + 2
             THEN (IF x.s = y.s
                   THEN FRound(x.s, x.m * 8, x.e - 3, TRUE)
                   ELSE FRound(x.s, x.m * 8 - 1, x.e - 3, TRUE))
             ELSE IF x.s = y.s
                  THEN FRound(x.s, x.m * Pow2(d) + y.m, y.e, FALSE)
             ELSE IF x.m * Pow2(d) = y.m THEN FZero
             ELSE IF x.m * Pow2(d) > y.m
                  THEN FRound(x.s, x.m * Pow2(d) - y.m, y.e, FALSE)
             ELSE FRound(y.s, y.m - x.m * Pow2(d), y.e, FALSE)

FSub(a, b) == FAdd(a, FNeg(b))

\* the whole part of the square root of N
ISqrt(N) ==
    LET RECURSIVE Bisect(_, _)
        Bisect(lo, hi) ==
            IF hi - lo <= 1 THEN lo
            ELSE LET mid == (lo + hi) \div 2
                 IN  IF mid * mid <= N THEN Bisect(mid, hi)
                     ELSE Bisect(lo, mid)
    IN  Bisect(0, 46341)

FSqrt(a) ==
    IF a.k = "nan" THEN FNaN
    ELSE IF FIsZero(a) THEN FZero
    ELSE IF a.s = -1 THEN FNaN
    ELSE IF a.k = "inf" THEN a
    ELSE Only({FRound(1, r, (a.e - sh) \div 2, r * r # a.m * Pow2(sh)) :
                 <<sh, r>> \in
                     {<<t, ISqrt(a.m * Pow2(t))>> :
                        t \in {IF (a.e - (30 - MantissaBits)) % 2 = 0
                               THEN 30 - MantissaBits
                               ELSE 29 - MantissaBits}}})

\* a >= 0
FGe0(a) == a.k # "nan" /\ (FIsZero(a) \/ a.s = 1)

\* getPoles with the second pole of an underdamped pair left unreflected
StageGetPolesUnreflected(s) ==
    IF s.type = "pole"
    THEN <<[re |-> FNeg(FromFixed(s.f0.value)), im |-> FZero]>>
    ELSE Only({
        Only({
            IF FGe0(discriminant)
            THEN Only({<<[re |-> FAdd(FNeg(alpha), sqrtDisc), im |-> FZero],
                         [re |-> FSub(FNeg(alpha), sqrtDisc), im |-> FZero]>> :
                          sqrtDisc \in {FSqrt(discriminant)}})
            ELSE Only({<<[re |-> FNeg(alpha), im |-> sqrtDisc],
                         [re |-> FNeg(alpha), im |-> sqrtDisc]>> :
                          sqrtDisc \in {FSqrt(FNeg(discriminant))}}) :
            alpha \in {FDiv(f0, FMul(FromInt(2), Q))},
            discriminant \in {FSub(FDiv(FMul(f0, f0),
                                        FMul(FMul(FromInt(4), Q), Q)),
                                   FMul(f0, f0))}}) :
        f0 \in {FromFixed(s.f0.value)}, Q \in {FromFixed(s.Q.value)}})

\* FirstOrderLowPass.getPoles() and SecondOrderLowPass.getPoles()
StageGetPoles(s) ==
    IF s.type = "pole"
    THEN <<[re |-> FNeg(FromFixed(s.f0.value)), im |-> FZero]>>
    ELSE Only({
        Only({
            IF FGe0(discriminant)
            THEN Only({<<[re |-> FAdd(FNeg(alpha), sqrtDisc), im |-> FZero],
                         [re |-> FSub(FNeg(alpha), sqrtDisc), im |-> FZero]>> :
                          sqrtDisc \in {FSqrt(discriminant)}})
            ELSE Only({<<[re |-> FNeg(alpha), im |-> sqrtDisc],
                         [re |-> FNeg(alpha), im |-> FNeg(sqrtDisc)]>> :
                          sqrtDisc \in {FSqrt(FNeg(discriminant))}}) :
            alpha \in {FDiv(f0, FMul(FromInt(2), Q))},
            discriminant \in {FSub(FDiv(FMul(f0, f0),
                                        FMul(FMul(FromInt(4), Q), Q)),
                                   FMul(f0, f0))}}) :
        f0 \in {FromFixed(s.f0.value)}, Q \in {FromFixed(s.Q.value)}})

---------------------------------------------------------------------------
(* getFrequencyResponse of a stage, of the cascade, of the solver *)

\* FilterStage.getMagnitude(omega)
StageMagnitude(s, omega) ==
    Only({JSqrt(JAdd(JMul(h.re, h.re), JMul(h.im, h.im))) :
             h \in {StageResponse(s, omega)}})

\* mag > 1e-10 ? 20 * Math.log10(mag) : -200
MagnitudeDb(mag) ==
    IF JGt(mag, Tiny) THEN JMul(Fin(20 * Scale), JLog10(mag))
    ELSE Fin(-200 * Scale)

\* one entry of a response array
Sample(freq, mag) ==
    [freq |-> freq, omega |-> freq, magnitude |-> mag,
     magnitudeDb |-> MagnitudeDb(mag)]

\* a grid spaced evenly in frequency, not in its logarithm
LinearFrequencies(freqMin, freqMax, numPoints) ==
    [k \in 1..(numPoints + 1) |->
        JAdd(Fin(Max(1, freqMin)),
             JMul(JDiv(Fin((k - 1) * Scale), Fin(numPoints * Scale)),
                  Fin(freqMax - Max(1, freqMin))))]

\* the frequencies FilterStage.getFrequencyResponse samples: i runs from 0
\* to numPoints
StageFrequencies(freqMin, freqMax, numPoints) ==
    Only({[k \in 1..(numPoints + 1) |->
              JPow10(JAdd(logMin,
                          JMul(JDiv(Fin((k - 1) * Scale), Fin(numPoints * Scale)),
                               JSub(logMax, logMin))))] :
             logMin \in {JLog10(Fin(Max(1, freqMin)))},
             logMax \in {JLog10(Fin(freqMax))}})

\* the frequencies FilterCascade.getFrequencyResponse samples
CascadeFrequencies(freqMin, freqMax, numPoints) ==
    Only({[k \in 1..(numPoints + 1) |->
              JPow10(JAdd(logMin,
                          JMul(JDiv(Fin((k - 1) * Scale), Fin(numPoints * Scale)),
                               JSub(logMax, logMin))))] :
             logMin \in {JLog10(Fin(Max(1, freqMin)))},
             logMax \in {JLog10(Fin(freqMax))}})

\* the frequencies ChebyshevSolver.getFrequencyResponse samples
SolverFrequencies(freqMin, freqMax, numPoints) ==
    Only({[k \in 1..(numPoints + 1) |->
              JPow10(JAdd(logMin,
                          JMul(JDiv(Fin((k - 1) * Scale), Fin(numPoints * Scale)),
                               JSub(logMax, logMin))))] :
             logMin \in {JLog10(Fin(Max(1, freqMin)))},
             logMax \in {JLog10(Fin(freqMax))}})

\* FilterStage.getFrequencyResponse(freqMin, freqMax, numPoints)
StageFrequencyResponse(s, freqMin, freqMax, numPoints) ==
    Only({[k \in 1..(numPoints + 1) |->
              Only({Sample(freq, StageMagnitude(s, freq)) : freq \in {grid[k]}})] :
             grid \in {StageFrequencies(freqMin, freqMax, numPoints)}})

\* FilterCascade.getFrequencyResponse(freqMin, freqMax, numPoints)
CascadeFrequencyResponse(arr, h, gainDb, freqMin, freqMax, numPoints) ==
    Only({[k \in 1..(numPoints + 1) |->
              Only({Sample(freq, CascadeMagnitude(arr, h, gainDb, freq)) :
                       freq \in {grid[k]}})] :
             grid \in {CascadeFrequencies(freqMin, freqMax, numPoints)}})

\* Tn in ChebyshevSolver.getResponse
ChebyshevT(n, x) ==
    IF JLe(x, Fin(Scale)) THEN JCosNAcos(n, x) ELSE JCosh(JMul(n, JAcosh(x)))

\* ChebyshevSolver.getResponse(omega, n, epsilon, wp)
SolverResponse(omega, n, epsilon, wp) ==
    Only({JSqrt(JDiv(Fin(Scale),
                     JAdd(Fin(Scale),
                          JMul(JMul(JMul(epsilon, epsilon), Tn), Tn)))) :
             Tn \in {ChebyshevT(n, JDiv(omega, wp))}})

\* ChebyshevSolver.getFrequencyResponse(wp, ws, Ap, As, freqMin, freqMax,
\* numPoints)
SolverFrequencyResponse(wp, ws, Ap, As, freqMin, freqMax, numPoints) ==
    Only({[response |->
              [k \in 1..(numPoints + 1) |->
                  Only({Sample(freq, mag) :
                           freq \in {grid[k]},
                           mag \in {SolverResponse(grid[k], n, epsilon, wp)}})],
           order |-> n, epsilon |-> epsilon] :
             n \in {getMinOrder(wp, ws, Ap, As)},
             epsilon \in {Epsilon(Ap)},
             grid \in {SolverFrequencies(freqMin, freqMax, numPoints)}})

---------------------------------------------------------------------------
(* UIManager *)

\* createParameterControl: the slider is made with the parameter's bounds
WithSlider(p) == [p EXCEPT !.slider = [has |-> TRUE, min |-> p.min, max |-> p.max]]

\* the slider's bounds follow the parameter's, where a slider exists
SyncSlider(p) ==
    IF p.slider.has
    THEN [p EXCEPT !.slider = [has |-> TRUE, min |-> p.min, max |-> p.max]]
    ELSE p

\* what a loop over getParameters() does to one parameter: op names the
\* call and carries its arguments
ParamOp(op, p) ==
    CASE op[1] = "update" -> update(p, op[2], op[3])
      [] op[1] = "startAnimation" -> startAnimation(p)
      [] op[1] = "stopAnimation" -> stopAnimation(p)
      [] op[1] = "autoRange" -> SyncSlider(autoRange(p, op[2]))
      [] op[1] = "slider" -> WithSlider(p)

\* for (const param of stage.getParameters()) ...: the stage after the loop
MapParams(s, op) ==
    IF s.type = "pole" THEN [s EXCEPT !.f0 = ParamOp(op, s.f0)]
    ELSE [s EXCEPT !.f0 = ParamOp(op, s.f0), !.Q = ParamOp(op, s.Q)]

\* the heap after the loop ran over every entry of the stage array, entry by
\* entry (updateAnimations, playAll, pauseAll, the tolerance wheel): an
\* object the array holds twice is visited twice
ForEachStage(arr, h, op) ==
    LET RECURSIVE Visit(_, _)
        Visit(i, hh) ==
            IF i > Len(arr) THEN hh
            ELSE Visit(i + 1, [hh EXCEPT ![arr[i]] = MapParams(hh[arr[i]], op)])
    IN  Visit(1, h)

\* a playAll that passes over the stages switched off
playAllActive(arr, h) ==
    ForEachStage(SelectSeq(arr, LAMBDA r : h[r].active), h, <<"startAnimation">>)

\* FilterCascade.playAll(): the heap after it
playAll(arr, h) == ForEachStage(arr, h, <<"startAnimation">>)

\* FilterCascade.pauseAll(): the heap after it
pauseAll(arr, h) == ForEachStage(arr, h, <<"stopAnimation">>)

\* FilterCascade.updateAnimations(deltaTime): the heap after it
updateAnimations(arr, h, deltaTime, speed) ==
    ForEachStage(arr, h, <<"update", deltaTime, speed>>)

\* the values an <input type=range min max step=0.01> can hold
SliderTop(sl) ==
    IF sl.max < sl.min THEN sl.min
    ELSE sl.min + ((sl.max - sl.min) \div SliderStep) * SliderStep

\* the positions a drag is explored at: the two ends of the track
SliderPositions(sl) == {sl.min, SliderTop(sl)}

\* The page once loaded: no stage, nextId 1, an empty cascade.  The tolerance
\* text is at its default (20) or at one of the clamps of its wheel handler
\* (1, 100), which wheel events on the empty page reach.
Init ==
    /\ heap = <<>>
    /\ nextId = 1
    /\ stages = <<>>
    /\ globalGainDb = 0
    /\ animationSpeed = DefaultSpeed
    /\ tolText \in InitialTolerances
    /\ scrollSensitivity = DefaultSensitivity
    /\ speedText = DefaultSpeed
    /\ cards = {}
    /\ wheelEvents = 0
    /\ thrown = "none"
    /\ solved = NotCalled
    /\ sampled = NotSampled
    /\ lastOp = "none"
    /\ gotPoles = NoPoles
    /\ game = [NewGameManager EXCEPT !.mode = "zen"]
    /\ intervals = [next |-> 1, active |-> {}]
    /\ popups = {}
    /\ storage = <<>>
    /\ rendered = [met |-> FALSE, completions |-> 0]
    /\ saved = NotSaved

\* new FirstOrderLowPass(f0), by a direct call
NewFirstOrder(f0) ==
    /\ heap' = Append(heap, FirstOrderLowPass(f0, nextId, tolText))
    /\ nextId' = TakeId(nextId).nextId
    /\ thrown' = "none"
    /\ lastOp' = "NewFirstOrder"
    /\ UNCHANGED otherVars
    /\ UNCHANGED <<sampled, stages, globalGainDb, animationSpeed, tolText,
                   scrollSensitivity, speedText, cards, wheelEvents,
                   solved>>

\* new SecondOrderLowPass(f0, Q), by a direct call
NewSecondOrder(f0, Q) ==
    /\ heap' = Append(heap, SecondOrderLowPass(f0, Q, nextId, tolText))
    /\ nextId' = TakeId(nextId).nextId
    /\ thrown' = "none"
    /\ lastOp' = "NewSecondOrder"
    /\ UNCHANGED otherVars
    /\ UNCHANGED <<sampled, stages, globalGainDb, animationSpeed, tolText,
                   scrollSensitivity, speedText, cards, wheelEvents,
                   solved>>

\* cascade.addStage(stage), by a direct call, of any stage object
AddStage(ref) ==
    /\ stages' = addStage(stages, ref)
    /\ thrown' = "none"
    /\ lastOp' = "AddStage"
    /\ UNCHANGED otherVars
    /\ UNCHANGED <<sampled, heap, nextId, globalGainDb, animationSpeed, tolText,
                   scrollSensitivity, speedText, cards, wheelEvents,
                   solved>>

\* cascade.removeStage(id), by a direct call, of any id
RemoveStage(id) ==
    /\ stages' = removeStage(stages, id)
    /\ thrown' = "none"
    /\ lastOp' = "RemoveStage"
    /\ UNCHANGED otherVars
    /\ UNCHANGED <<sampled, heap, nextId, globalGainDb, animationSpeed, tolText,
                   scrollSensitivity, speedText, cards, wheelEvents,
                   solved>>

\* stage.active = b, by a direct write
SetActive(ref, b) ==
    /\ heap' = [heap EXCEPT ![ref].active = b]
    /\ thrown' = "none"
    /\ lastOp' = "SetActive"
    /\ UNCHANGED otherVars
    /\ UNCHANGED <<sampled, nextId, stages, globalGainDb, animationSpeed, tolText,
                   scrollSensitivity, speedText, cards, wheelEvents,
                   solved>>

\* param.setRange(min, max), by a direct call
SetRangeCall(ref, name, min, max) ==
    /\ heap' = [heap EXCEPT ![ref][name] = setRange(@, min, max)]
    /\ thrown' = "none"
    /\ lastOp' = "SetRangeCall"
    /\ UNCHANGED otherVars
    /\ UNCHANGED <<sampled, nextId, stages, globalGainDb, animationSpeed, tolText,
                   scrollSensitivity, speedText, cards, wheelEvents,
                   solved>>

\* click on #add-pole
ClickAddPole ==
    /\ IF Len(stages) >= MAX_STAGES
       THEN UNCHANGED <<heap, nextId, stages, cards>>
       ELSE /\ heap' = Append(heap, MapParams(
                           FirstOrderLowPass(DefaultF0, nextId, tolText), <<"slider">>))
            /\ nextId' = TakeId(nextId).nextId
            /\ stages' = addStage(stages, Len(heap) + 1)
            /\ cards' = cards \cup {Len(heap) + 1}
    /\ thrown' = "none"
    /\ lastOp' = "ClickAddPole"
    /\ UNCHANGED otherVars
    /\ UNCHANGED <<sampled, globalGainDb, animationSpeed, tolText, scrollSensitivity,
                   speedText, wheelEvents,
                   solved>>

\* click on #add-biquad
ClickAddBiquad ==
    /\ IF Len(stages) >= MAX_STAGES
       THEN UNCHANGED <<heap, nextId, stages, cards>>
       ELSE /\ heap' = Append(heap, MapParams(
                           SecondOrderLowPass(DefaultF0, DefaultQ, nextId, tolText),
                           <<"slider">>))
            /\ nextId' = TakeId(nextId).nextId
            /\ stages' = addStage(stages, Len(heap) + 1)
            /\ cards' = cards \cup {Len(heap) + 1}
    /\ thrown' = "none"
    /\ lastOp' = "ClickAddBiquad"
    /\ UNCHANGED otherVars
    /\ UNCHANGED <<sampled, globalGainDb, animationSpeed, tolText, scrollSensitivity,
                   speedText, wheelEvents,
                   solved>>

\* click on a card's remove button
ClickRemove(ref) ==
    /\ ref \in cards
    /\ stages' = removeStage(stages, heap[ref].id)
    /\ cards' = cards \ {ref}
    /\ thrown' = "none"
    /\ lastOp' = "ClickRemove"
    /\ UNCHANGED otherVars
    /\ UNCHANGED <<sampled, heap, nextId, globalGainDb, animationSpeed, tolText,
                   scrollSensitivity, speedText, wheelEvents,
                   solved>>

\* click on #reset-all: cascade.clearStages() and the cards are dropped
ClickResetAll ==
    /\ stages' = clearStages(globalGainDb).stages
    /\ globalGainDb' = clearStages(globalGainDb).globalGainDb
    /\ cards' = {}
    /\ thrown' = "none"
    /\ lastOp' = "ClickResetAll"
    /\ UNCHANGED otherVars
    /\ UNCHANGED <<sampled, heap, nextId, animationSpeed, tolText, scrollSensitivity,
                   speedText, wheelEvents,
                   solved>>

\* click on #play-all
ClickPlayAll ==
    /\ heap' = playAll(stages, heap)
    /\ thrown' = "none"
    /\ lastOp' = "ClickPlayAll"
    /\ UNCHANGED otherVars
    /\ UNCHANGED <<sampled, nextId, stages, globalGainDb, animationSpeed, tolText,
                   scrollSensitivity, speedText, cards, wheelEvents,
                   solved>>

\* click on #pause-all
ClickPauseAll ==
    /\ heap' = pauseAll(stages, heap)
    /\ thrown' = "none"
    /\ lastOp' = "ClickPauseAll"
    /\ UNCHANGED otherVars
    /\ UNCHANGED <<sampled, nextId, stages, globalGainDb, animationSpeed, tolText,
                   scrollSensitivity, speedText, cards, wheelEvents,
                   solved>>

\* click on a parameter's play button
ClickPlayBtn(ref, name) ==
    /\ ref \in cards
    /\ heap' = [heap EXCEPT ![ref][name] =
                    IF @.isAnimating THEN stopAnimation(@) ELSE startAnimation(@)]
    /\ thrown' = "none"
    /\ lastOp' = "ClickPlayBtn"
    /\ UNCHANGED otherVars
    /\ UNCHANGED <<sampled, nextId, stages, globalGainDb, animationSpeed, tolText,
                   scrollSensitivity, speedText, cards, wheelEvents,
                   solved>>

\* input event of a parameter's slider, dragged to position v
SliderInput(ref, name, v) ==
    /\ ref \in cards
    /\ heap' = [heap EXCEPT ![ref][name].value = v]
    /\ thrown' = "none"
    /\ lastOp' = "SliderInput"
    /\ UNCHANGED otherVars
    /\ UNCHANGED <<sampled, nextId, stages, globalGainDb, animationSpeed, tolText,
                   scrollSensitivity, speedText, cards, wheelEvents,
                   solved>>

\* the parameter after a wheel event on its value span
paramWheel(p, direction, text, sensitivity) ==
    LET delta == direction * Mul(ParamStep, sensitivity)
        moved == [p EXCEPT !.value = Max(MinWheelValue, p.value + delta)]
    IN  SyncSlider(autoRange(moved, text))

\* wheel event on a parameter's value span
ParamWheel(ref, name, direction) ==
    /\ ref \in cards
    /\ heap' = [heap EXCEPT ![ref][name] =
                    paramWheel(@, direction, tolText, scrollSensitivity)]
    /\ wheelEvents' = wheelEvents + 1
    /\ thrown' = "none"
    /\ lastOp' = "ParamWheel"
    /\ UNCHANGED otherVars
    /\ UNCHANGED <<sampled, nextId, stages, globalGainDb, animationSpeed, tolText,
                   scrollSensitivity, speedText, cards,
                   solved>>

\* the tolerance text after a wheel event on it
toleranceWheel(text, direction, sensitivity) ==
    MathRound(Max(Scale, Min(100 * Scale, text * Scale + direction * sensitivity)))

\* wheel event on #slider-tolerance-value
ToleranceWheel(direction) ==
    /\ tolText' = toleranceWheel(tolText, direction, scrollSensitivity)
    /\ heap' = ForEachStage(stages, heap, <<"autoRange", tolText'>>)
    /\ wheelEvents' = wheelEvents + 1
    /\ thrown' = "none"
    /\ lastOp' = "ToleranceWheel"
    /\ UNCHANGED otherVars
    /\ UNCHANGED <<sampled, nextId, stages, globalGainDb, animationSpeed,
                   scrollSensitivity, speedText, cards,
                   solved>>

\* the speed after a wheel event on the speed text
speedWheel(text, direction, sensitivity) ==
    Max(100, Min(10 * Scale, text + direction * Mul(100, sensitivity)))

\* Number.prototype.toFixed(1), read back as a number
ToFixed1(x) == RoundDiv(x, 100) * 100

\* wheel event on #slider-speed-value
SpeedWheel(direction) ==
    /\ animationSpeed' = speedWheel(speedText, direction, scrollSensitivity)
    /\ speedText' = ToFixed1(animationSpeed')
    /\ wheelEvents' = wheelEvents + 1
    /\ thrown' = "none"
    /\ lastOp' = "SpeedWheel"
    /\ UNCHANGED otherVars
    /\ UNCHANGED <<sampled, heap, nextId, stages, globalGainDb, tolText,
                   scrollSensitivity, cards, solved>>

\* input event of #scroll-sensitivity
SensitivityInput(s) ==
    /\ scrollSensitivity' = s
    /\ thrown' = "none"
    /\ lastOp' = "SensitivityInput"
    /\ UNCHANGED otherVars
    /\ UNCHANGED <<sampled, heap, nextId, stages, globalGainDb, animationSpeed, tolText,
                   speedText, cards, wheelEvents,
                   solved>>

\* the frames explored: those that take no animated parameter's phase, before
\* it is wrapped, past cap
PhaseWithin(deltaTime, cap) ==
    \A r \in InCascade : \A n \in ParamNames(heap[r]) :
        heap[r][n].isAnimating =>
            heap[r][n].phase + Mul(deltaTime, animationSpeed) <= cap

\* one pass of the main loop: cascade.updateAnimations(deltaTime)
Frame(deltaTime) ==
    /\ heap' = updateAnimations(stages, heap, deltaTime, animationSpeed)
    /\ thrown' = "none"
    /\ lastOp' = "Frame"
    /\ UNCHANGED otherVars
    /\ UNCHANGED <<sampled, nextId, stages, globalGainDb, animationSpeed, tolText,
                   scrollSensitivity, speedText, cards, wheelEvents,
                   solved>>

\* cascade.clearStages(), by a direct call
ClearStages ==
    /\ stages' = clearStages(globalGainDb).stages
    /\ globalGainDb' = clearStages(globalGainDb).globalGainDb
    /\ thrown' = "none"
    /\ lastOp' = "ClearStages"
    /\ UNCHANGED otherVars
    /\ UNCHANGED <<sampled, heap, nextId, animationSpeed, tolText, scrollSensitivity,
                   speedText, cards, wheelEvents, solved>>

\* input on #global-gain-slider
GainSliderInput(v) ==
    /\ globalGainDb' = v
    /\ thrown' = "none"
    /\ lastOp' = "GainSliderInput"
    /\ UNCHANGED otherVars
    /\ UNCHANGED <<sampled, heap, nextId, stages, animationSpeed, tolText,
                   scrollSensitivity, speedText, cards, wheelEvents, solved>>

\* ChebyshevSolver.getMinOrder(wp, ws, Ap, As), by a direct call
CallGetMinOrder(wp, ws, Ap, As) ==
    /\ solved' = [call |-> "getMinOrder", wp |-> wp, ws |-> ws, Ap |-> Ap,
                  As |-> As, ends |-> TRUE,
                  order |-> getMinOrder(Fin(wp), Fin(ws), Fin(Ap), Fin(As)),
                  stages |-> <<>>, globalGainDb |-> Undefined,
                  calls |-> solved.calls + 1]
    /\ thrown' = "none"
    /\ lastOp' = "CallGetMinOrder"
    /\ UNCHANGED otherVars
    /\ UNCHANGED <<sampled, heap, nextId, stages, globalGainDb, animationSpeed, tolText,
                   scrollSensitivity, speedText, cards, wheelEvents>>

\* ChebyshevSolver.getBestSolutionStages(wp, ws, Ap, As), by a direct call
CallGetBestSolutionStages(wp, ws, Ap, As) ==
    \E best \in {getBestSolutionStages(Fin(wp), Fin(ws), Fin(Ap), Fin(As),
                                      heap, nextId, tolText)} :
        /\ solved' = [call |-> "getBestSolutionStages", wp |-> wp, ws |-> ws,
                      Ap |-> Ap, As |-> As, ends |-> best.ends,
                      order |-> getMinOrder(Fin(wp), Fin(ws), Fin(Ap), Fin(As)),
                      stages |-> best.stages,
                      globalGainDb |-> IF best.ends THEN best.globalGainDb
                                       ELSE Undefined,
                      calls |-> solved.calls + 1]
        /\ heap' = best.heap
        /\ nextId' = best.id
        /\ thrown' = "none"
        /\ lastOp' = "CallGetBestSolutionStages"
        /\ UNCHANGED otherVars
        /\ UNCHANGED <<sampled, stages, globalGainDb, animationSpeed, tolText,
                       scrollSensitivity, speedText, cards, wheelEvents>>

\* stage.getFrequencyResponse(freqMin, freqMax, numPoints), by a direct call
\* or by render for the hovered stage
CallStageGetFrequencyResponse(ref, freqMin, freqMax, numPoints) ==
    /\ sampled' = [call |-> "stage", target |-> <<ref>>, freqMin |-> freqMin,
                   freqMax |-> freqMax, numPoints |-> numPoints,
                   response |-> StageFrequencyResponse(heap[ref], freqMin,
                                                       freqMax, numPoints),
                   order |-> Undefined, epsilon |-> Undefined,
                   calls |-> sampled.calls + 1]
    /\ thrown' = "none"
    /\ lastOp' = "CallStageGetFrequencyResponse"
    /\ UNCHANGED otherVars
    /\ UNCHANGED <<heap, nextId, stages, globalGainDb, animationSpeed, tolText,
                   scrollSensitivity, speedText, cards, wheelEvents, solved>>

\* a sampling that takes the gain off the cascade once it has applied it
CallCascadeGetFrequencyResponseResetting(freqMin, freqMax, numPoints) ==
    /\ sampled' = [call |-> "cascade", target |-> stages, freqMin |-> freqMin,
                   freqMax |-> freqMax, numPoints |-> numPoints,
                   response |-> CascadeFrequencyResponse(stages, heap,
                                    globalGainDb, freqMin, freqMax, numPoints),
                   order |-> Undefined, epsilon |-> Undefined,
                   calls |-> sampled.calls + 1]
    /\ globalGainDb' = 0
    /\ thrown' = "none"
    /\ lastOp' = "CallCascadeGetFrequencyResponse"
    /\ UNCHANGED otherVars
    /\ UNCHANGED <<heap, nextId, stages, animationSpeed, tolText,
                   scrollSensitivity, speedText, cards, wheelEvents, solved>>

\* cascade.getFrequencyResponse(freqMin, freqMax, numPoints)
CallCascadeGetFrequencyResponse(freqMin, freqMax, numPoints) ==
    /\ sampled' = [call |-> "cascade", target |-> stages, freqMin |-> freqMin,
                   freqMax |-> freqMax, numPoints |-> numPoints,
                   response |-> CascadeFrequencyResponse(stages, heap,
                                    globalGainDb, freqMin, freqMax, numPoints),
                   order |-> Undefined, epsilon |-> Undefined,
                   calls |-> sampled.calls + 1]
    /\ thrown' = "none"
    /\ lastOp' = "CallCascadeGetFrequencyResponse"
    /\ UNCHANGED otherVars
    /\ UNCHANGED <<heap, nextId, stages, globalGainDb, animationSpeed, tolText,
                   scrollSensitivity, speedText, cards, wheelEvents, solved>>

\* ChebyshevSolver.getFrequencyResponse(wp, ws, Ap, As, freqMin, freqMax,
\* numPoints)
CallSolverGetFrequencyResponse(wp, ws, Ap, As, freqMin, freqMax, numPoints) ==
    \E ideal \in {SolverFrequencyResponse(Fin(wp), Fin(ws), Fin(Ap), Fin(As),
                                          freqMin, freqMax, numPoints)} :
        /\ sampled' = [call |-> "solver", target |-> <<wp, ws, Ap, As>>,
                       freqMin |-> freqMin, freqMax |-> freqMax,
                       numPoints |-> numPoints, response |-> ideal.response,
                       order |-> ideal.order, epsilon |-> ideal.epsilon,
                       calls |-> sampled.calls + 1]
        /\ thrown' = "none"
        /\ lastOp' = "CallSolverGetFrequencyResponse"
        /\ UNCHANGED otherVars
        /\ UNCHANGED <<heap, nextId, stages, globalGainDb, animationSpeed,
                       tolText, scrollSensitivity, speedText, cards,
                       wheelEvents, solved>>

\* stage.getPoles(), by a direct call or by render for the pole-zero plot
CallGetPoles(ref) ==
    /\ gotPoles' = [target |-> <<ref>>, result |-> StageGetPoles(heap[ref])]
    /\ thrown' = "none"
    /\ lastOp' = "CallGetPoles"
    /\ UNCHANGED gameVars
    /\ UNCHANGED <<heap, nextId, stages, globalGainDb, animationSpeed, tolText,
                   scrollSensitivity, speedText, cards, wheelEvents, solved,
                   sampled>>

\* click on #btn-popup-best, game.constraints being {wp, ws, Ap, As}
ClickPopupBest(wp, ws, Ap, As) ==
    \E best \in {getBestSolutionStages(Fin(wp), Fin(ws), Fin(Ap), Fin(As),
                                      heap, nextId, tolText)} :
        /\ solved' = [call |-> "popupBest", wp |-> wp, ws |-> ws,
                      Ap |-> Ap, As |-> As, ends |-> best.ends,
                      order |-> getMinOrder(Fin(wp), Fin(ws), Fin(Ap), Fin(As)),
                      stages |-> best.stages,
                      globalGainDb |-> IF best.ends THEN best.globalGainDb
                                       ELSE Undefined,
                      calls |-> solved.calls + 1]
        /\ heap' = [r \in 1..Len(best.heap) |->
                       IF r \in Refs THEN heap[r]
                       ELSE MapParams(best.heap[r], <<"slider">>)]
        /\ nextId' = best.id
        /\ IF best.ends
           THEN /\ stages' = best.stages
                /\ cards' = {best.stages[i] : i \in 1..Len(best.stages)}
                /\ globalGainDb' = best.globalGainDb.v
           ELSE UNCHANGED <<stages, cards, globalGainDb>>
        /\ thrown' = "none"
        /\ lastOp' = "ClickPopupBest"
        /\ UNCHANGED otherVars
        /\ UNCHANGED <<sampled, animationSpeed, tolText, scrollSensitivity, speedText,
                       wheelEvents>>

\* Actions of one parameter's life: construction by a direct call or by the
\* UI, setRange, the tolerance, slider, wheel and play handlers, animation
ParamNext ==
    \/ /\ Len(heap) < MaxParamStages
       /\ \E f0 \in F0Inputs : NewFirstOrder(f0)
    \/ /\ Len(stages) < MaxParamStages
       /\ \E r \in Refs : AddStage(r)
    \/ \E pr \in ParamsOf(Refs), mn \in RangeInputs, mx \in RangeInputs :
          SetRangeCall(pr[1], pr[2], mn, mx)
    \/ /\ Len(heap) < MaxParamStages
       /\ ClickAddPole
    \/ \E pr \in ParamsOf(Refs) : ClickPlayBtn(pr[1], pr[2])
    \/ \E pr \in ParamsOf(Refs) :
          \E v \in SliderPositions(heap[pr[1]][pr[2]].slider) :
              SliderInput(pr[1], pr[2], v)
    \/ /\ wheelEvents < MaxWheelEvents
       /\ \E pr \in ParamsOf(Refs), d \in Directions : ParamWheel(pr[1], pr[2], d)
    \/ /\ wheelEvents < MaxWheelEvents
       /\ \E d \in Directions : ToleranceWheel(d)
    \/ \E dt \in DeltaTimes : PhaseWithin(dt, MaxPhase) /\ Frame(dt)

ParamSpec == Init /\ [][ParamNext]_vars

\* Actions of the page alone: every stage is made by the add buttons
UINext ==
    \/ /\ Len(heap) < MaxUIStages
       /\ ClickAddPole
    \/ /\ Len(heap) < MaxUIStages
       /\ ClickAddBiquad
    \/ \E r \in Refs : ClickRemove(r)
    \/ ClickResetAll
    \/ ClickPlayAll
    \/ ClickPauseAll
    \/ \E pr \in ParamsOf(Refs) : ClickPlayBtn(pr[1], pr[2])
    \/ \E pr \in ParamsOf(Refs) :
          \E v \in SliderPositions(heap[pr[1]][pr[2]].slider) :
              SliderInput(pr[1], pr[2], v)
    \/ /\ wheelEvents < MaxUIWheelEvents
       /\ \E pr \in ParamsOf(Refs), d \in Directions : ParamWheel(pr[1], pr[2], d)
    \/ /\ wheelEvents < MaxUIWheelEvents
       /\ \E d \in Directions : ToleranceWheel(d)
    \/ /\ wheelEvents < MaxUIWheelEvents
       /\ \E s \in SensitivityInputs : SensitivityInput(s)
    \/ \E dt \in DeltaTimes : PhaseWithin(dt, MaxPhase) /\ Frame(dt)

UISpec == Init /\ [][UINext]_vars

\* Actions of the cascade: stages made and added, removed, switched off
CascadeNext ==
    \/ /\ Len(heap) < MaxCreated
       /\ \E f0 \in F0Inputs : NewFirstOrder(f0)
    \/ /\ Len(heap) < MaxCreated
       /\ \E f0 \in BiquadF0Inputs, Q \in QInputs : NewSecondOrder(f0, Q)
    \/ /\ Len(heap) < MaxCreated
       /\ ClickAddPole
    \/ /\ Len(stages) < MaxLen
       /\ \E r \in Refs : AddStage(r)
    \/ \E id \in 1..nextId : RemoveStage(id)
    \/ \E r \in Refs : ClickRemove(r)
    \/ ClearStages
    \/ \E v \in GainInputs : GainSliderInput(v)

\* the cascade is explored with the tolerance text at its default
CascadeInit == Init /\ tolText = DefaultTolerance

CascadeSpec == CascadeInit /\ [][CascadeNext]_vars

\* Actions of a chain built front to back: each stage made and appended
\* before the next is made, one stage at a time switched off and on again,
\* the gain set
OrderNext ==
    \/ /\ Len(heap) < MaxOrderLen
       /\ Len(heap) = Len(stages)
       /\ \E f0 \in OrderF0Inputs : NewFirstOrder(f0)
    \/ /\ Len(heap) < MaxOrderLen
       /\ Len(heap) = Len(stages)
       /\ \E f0 \in BiquadF0Inputs, Q \in QInputs : NewSecondOrder(f0, Q)
    \/ \E r \in Refs : r = Len(stages) + 1 /\ AddStage(r)
    \/ \E r \in InCascade :
          /\ \A q \in InCascade : heap[q].active
          /\ SetActive(r, FALSE)
    \/ \E r \in InCascade : ~heap[r].active /\ SetActive(r, TRUE)
    \/ \E v \in GainInputs : globalGainDb # v /\ GainSliderInput(v)

OrderSpec == CascadeInit /\ [][OrderNext]_vars

\* Actions of the animation: stages of the page, chained once or more, played
\* and paused, switched off, the speed and the tolerance turned, frames
AnimNext ==
    \/ /\ Len(heap) < MaxAnimStages
       /\ ClickAddPole
    \/ /\ Len(heap) < MaxAnimStages
       /\ ClickAddBiquad
    \/ /\ Len(stages) < MaxAnimLen
       /\ \E r \in Refs : AddStage(r)
    \/ \E r \in Refs : heap[r].active /\ SetActive(r, FALSE)
    \/ ClickPlayAll
    \/ ClickPauseAll
    \/ /\ wheelEvents < MaxAnimWheelEvents
       /\ \E d \in Directions : ToleranceWheel(d)
    \/ /\ wheelEvents < MaxAnimWheelEvents
       /\ \E d \in Directions : SpeedWheel(d)
    \/ \E dt \in DeltaTimes : PhaseWithin(dt, MaxAnimPhase) /\ Frame(dt)

AnimSpec == CascadeInit /\ [][AnimNext]_vars

\* Actions of play and pause: stages of the page, switched off, played and
\* paused together or one by one, the tolerance turned, frames
PlayNext ==
    \/ /\ Len(heap) < MaxPlayStages
       /\ ClickAddPole
    \/ /\ Len(heap) < MaxPlayStages
       /\ ClickAddBiquad
    \/ /\ Len(heap) < MaxPlayStages
       /\ \E f0 \in PlayF0Inputs : NewFirstOrder(f0)
    \/ \E r \in Refs \ InCascade : AddStage(r)
    \/ \E r \in Refs : heap[r].active /\ SetActive(r, FALSE)
    \/ ClickPlayAll
    \/ ClickPauseAll
    \/ \E pr \in ParamsOf(Refs) : ClickPlayBtn(pr[1], pr[2])
    \/ /\ wheelEvents < MaxPlayWheelEvents
       /\ \E d \in Directions : ToleranceWheel(d)
    \/ \E dt \in PlayDeltaTimes : PhaseWithin(dt, MaxPhase) /\ Frame(dt)

PlaySpec == CascadeInit /\ [][PlayNext]_vars

\* Actions of the plots: stages of the page, the gain, and the responses of
\* a stage, of the cascade and of the solver sampled
SampleNext ==
    \/ /\ Len(heap) < MaxSampleStages
       /\ ClickAddPole
    \/ /\ Len(heap) < MaxSampleStages
       /\ ClickAddBiquad
    \/ \E v \in GainInputs : globalGainDb # v /\ GainSliderInput(v)
    \/ /\ sampled.calls < MaxSampleCalls
       /\ \E r \in Refs, lo \in FreqMinInputs, hi \in FreqMaxInputs,
             np \in NumPointsInputs :
             CallStageGetFrequencyResponse(r, lo, hi, np)
    \/ /\ sampled.calls < MaxSampleCalls
       /\ \E lo \in FreqMinInputs, hi \in FreqMaxInputs,
             np \in NumPointsInputs :
             CallCascadeGetFrequencyResponse(lo, hi, np)
    \/ /\ sampled.calls < MaxSampleCalls
       /\ \E d \in SampleDesigns, lo \in FreqMinInputs, hi \in FreqMaxInputs,
             np \in NumPointsInputs :
             CallSolverGetFrequencyResponse(d.wp, d.ws, d.Ap, d.As, lo, hi, np)

SampleSpec == CascadeInit /\ [][SampleNext]_vars

\* Actions of a solver called again on the specification of its last call,
\* on a page where a stage may be added before or between the calls
DesignNext ==
    \/ /\ Len(heap) < MaxDesignStages
       /\ ClickAddPole
    \/ /\ solved.calls < MaxDesignCalls
       /\ \E d \in SampleDesigns :
             /\ solved.call # "none"
                    => <<d.wp, d.ws, d.Ap, d.As>>
                           = <<solved.wp, solved.ws, solved.Ap, solved.As>>
             /\ CallGetMinOrder(d.wp, d.ws, d.Ap, d.As)
    \/ /\ solved.calls < MaxDesignCalls
       /\ \E d \in SampleDesigns :
             /\ solved.call # "none"
                    => <<d.wp, d.ws, d.Ap, d.As>>
                           = <<solved.wp, solved.ws, solved.Ap, solved.As>>
             /\ CallGetBestSolutionStages(d.wp, d.ws, d.Ap, d.As)
    \/ \E d \in SampleDesigns, lo \in FreqMinInputs, hi \in FreqMaxInputs,
          np \in NumPointsInputs :
          /\ sampled.calls < MaxDesignCalls
          /\ sampled.call # "none"
                 => <<<<d.wp, d.ws, d.Ap, d.As>>, lo, hi, np>>
                        = <<sampled.target, sampled.freqMin, sampled.freqMax,
                            sampled.numPoints>>
          /\ CallSolverGetFrequencyResponse(d.wp, d.ws, d.Ap, d.As, lo, hi, np)

DesignSpec == CascadeInit /\ [][DesignNext]_vars

\* Actions of a cascade sampled twice running: stages of the page, the gain,
\* play and frames until the first sampling, then the same sampling again
ResampleNext ==
    \/ /\ sampled.calls = 0
       /\ Len(heap) < MaxResampleStages
       /\ ClickAddPole
    \/ /\ sampled.calls = 0
       /\ Len(heap) < MaxResampleStages
       /\ ClickAddBiquad
    \/ /\ sampled.calls = 0
       /\ \E v \in GainInputs : globalGainDb # v /\ GainSliderInput(v)
    \/ /\ sampled.calls = 0
       /\ ClickPlayAll
    \/ /\ sampled.calls = 0
       /\ \E dt \in DeltaTimes : PhaseWithin(dt, MaxPhase) /\ Frame(dt)
    \/ /\ sampled.calls < MaxResampleCalls
       /\ \E lo \in FreqMinInputs, hi \in FreqMaxInputs,
             np \in NumPointsInputs :
             /\ sampled.call # "none"
                    => <<lo, hi, np>> = <<sampled.freqMin, sampled.freqMax,
                                         sampled.numPoints>>
             /\ CallCascadeGetFrequencyResponse(lo, hi, np)

ResampleSpec == CascadeInit /\ [][ResampleNext]_vars

\* Actions of the pole plot: second-order stages made with f0 > 0 and Q > 0,
\* from far overdamped to underdamped, and their poles computed
PoleNext ==
    \/ /\ Len(heap) < MaxPoleStages
       /\ \E f0 \in PoleF0Inputs, Q \in PoleQInputs : NewSecondOrder(f0, Q)
    \/ /\ Len(heap) < MaxPoleStages
       /\ ClickAddBiquad
    \/ /\ Len(heap) < MaxPoleStages
       /\ ClickAddPole
    \/ \E r \in Refs : CallGetPoles(r)

PoleSpec == CascadeInit /\ [][PoleNext]_vars

\* Actions of the solver: one call, on any arguments, from a fresh page
SolverNext ==
    \/ /\ solved.call = "none"
       /\ \E wp \in WpInputs, ws \in WsInputs, Ap \in ApInputs, As \in AsInputs :
             CallGetMinOrder(wp, ws, Ap, As)
    \/ /\ solved.call = "none"
       /\ \E wp \in WpInputs, ws \in WsInputs, Ap \in ApInputs, As \in AsInputs :
             CallGetBestSolutionStages(wp, ws, Ap, As)
    \/ /\ solved.call = "none"
       /\ \E c \in GameConstraints : ClickPopupBest(c.wp, c.ws, c.Ap, c.As)

SolverSpec == Init /\ [][SolverNext]_vars

\* Actions of the solver asked for the minimum order again and again
MonoNext ==
    /\ solved.calls < MaxMonoCalls
    /\ \E wp \in MonoWpInputs, ws \in MonoWsInputs, Ap \in MonoApInputs,
          As \in MonoAsInputs :
          CallGetMinOrder(wp, ws, Ap, As)

MonoSpec == Init /\ [][MonoNext]_vars

---------------------------------------------------------------------------
(* Properties *)

\* the parameters of the stages ever made
AllParams == {heap[pr[1]][pr[2]] : pr \in ParamsOf(Refs)}

\* C1: every oscillator parameter keeps min <= value <= max and min >= 0 in
\* every state reached by construction, setRange, autoRange, update and the
\* slider and wheel writes
OscillatorInRange ==
    \A p \in AllParams : p.min <= p.value /\ p.value <= p.max /\ p.min >= 0

\* the stages getBestSolutionStages returned, by type
ReturnedOfType(type) == {i \in 1..Len(solved.stages) : heap[solved.stages[i]].type = type}

\* C2: getBestSolutionStages for minimum order n returns floor(n/2)
\* second-order stages and one first-order stage exactly when n is odd
StageCountsMatchOrder ==
    (/\ solved.call = "getBestSolutionStages"
     /\ solved.ends
     /\ IsFin(solved.order)
     /\ solved.order.v >= Scale)
    => /\ Cardinality(ReturnedOfType("biquad")) = (solved.order.v \div Scale) \div 2
       /\ Cardinality(ReturnedOfType("pole")) = (solved.order.v \div Scale) % 2

\* the DC level in dB the decomposition of a design of order n is to have
ExpectedDcDb(n, Ap) == IF (n \div Scale) % 2 = 0 THEN -Ap ELSE 0

\* C3: getBestSolutionStages returns globalGainDb = -Ap for an even minimum
\* order and 0 for an odd one, and the cascade rebuilt from what it returned
\* has that DC level, to within 0.1 dB
DcGainByParity ==
    /\ (/\ solved.call \in {"getBestSolutionStages", "popupBest"}
        /\ solved.ends
        /\ IsFin(solved.order))
       => solved.globalGainDb = Fin(ExpectedDcDb(solved.order.v, solved.Ap))
    /\ (solved.call = "popupBest" /\ solved.ends /\ IsFin(solved.order))
       => LET db == CascadeMagnitudeDb(stages, heap, globalGainDb, Fin(0))
          IN  /\ IsFin(db)
              /\ Abs(db.v - ExpectedDcDb(solved.order.v, solved.Ap)) <= Scale \div 10

\* C3 witness: the best solution of an even-order design was loaded
EvenOrderLoaded ==
    /\ solved.call = "popupBest"
    /\ solved.ends
    /\ IsFin(solved.order)
    /\ (solved.order.v \div Scale) % 2 = 0
    /\ globalGainDb = -solved.Ap
    /\ solved.Ap > 0

\* C4: no two entries of the cascade's stage sequence have the same id
UniqueStageIds ==
    \A i \in 1..Len(stages), j \in 1..Len(stages) :
        i # j => heap[stages[i]].id # heap[stages[j]].id

\* C5: every stage constructed has an id greater than the id of every stage
\* constructed before it, whatever was removed or cleared in between, and the
\* counter stays above every id given out
IdsNeverReused ==
    /\ \A i \in Refs, j \in Refs : i < j => heap[i].id < heap[j].id
    /\ \A i \in Refs : heap[i].id < nextId

\* C5 witness: a stage put into the cascade by the page is out of it again,
\* and a stage constructed after it is in the cascade
LaterStageAfterRemoval ==
    \E i \in Refs, j \in Refs :
        /\ i < j
        /\ heap[i].f0.slider.has
        /\ i \notin InCascade
        /\ j \in InCascade

\* C6: getMinOrder fails with InfeasibleSpecification when ws <= wp, Ap <= 0
\* or the acosh argument sqrt(A^2 - 1) / epsilon is below 1
InfeasibleRejected ==
    LET A   == JPow10(JDiv(Fin(solved.As), Fin(20 * Scale)))
        arg == JDiv(JSqrt(JSub(JMul(A, A), Fin(Scale))), Epsilon(Fin(solved.Ap)))
    IN  (/\ solved.call = "getMinOrder"
         /\ \/ solved.ws <= solved.wp
            \/ solved.Ap <= 0
            \/ JLt(arg, Fin(Scale)))
        => thrown = "InfeasibleSpecification"

\* C7: setRange called with max < min or with min < 0 fails with InvalidRange
SetRangeRejectsInvalid ==
    [][\A pr \in ParamsOf(Refs), mn \in RangeInputs, mx \in RangeInputs :
          (SetRangeCall(pr[1], pr[2], mn, mx) /\ (mx < mn \/ mn < 0))
              => thrown' = "InvalidRange"]_vars

\* C8: constructing a stage with f0 <= 0 or Q <= 0 fails with
\* NonPositiveParameter
ConstructorRejectsNonPositive ==
    [][/\ \A f0 \in F0Inputs :
             (NewFirstOrder(f0) /\ f0 <= 0) => thrown' = "NonPositiveParameter"
       /\ \A f0 \in BiquadF0Inputs, Q \in QInputs :
             (NewSecondOrder(f0, Q) /\ (f0 <= 0 \/ Q <= 0))
                 => thrown' = "NonPositiveParameter"]_vars

\* C9: every stage made by the page keeps f0 > 0, and Q > 0 when it has one,
\* under animation, autoRange at 1% to 100%, slider input and the wheel
PositiveParameters == \A p \in AllParams : p.value > 0

\* C10: the cascade's response with a stage switched off equals its response
\* with that stage removed by removeStage, at every frequency
InactiveIsRemoved ==
    \A r \in InCascade, omega \in Omegas :
        CascadeResponse(stages, [heap EXCEPT ![r].active = FALSE],
                        globalGainDb, Fin(omega))
            = CascadeResponse(removeStage(stages, heap[r].id), heap,
                              globalGainDb, Fin(omega))

\* C10 witness: a stage whose response is not the identity is switched off in
\* a cascade of several stages with a global gain set
InactiveAmongOthers ==
    \E r \in InCascade :
        /\ ~heap[r].active
        /\ Len(stages) >= 2
        /\ \E q \in InCascade : q # r /\ heap[q].active
        /\ globalGainDb # 0
        /\ StageResponse(heap[r], Fin(Scale)) # [re |-> Fin(Scale), im |-> Fin(0)]


RECURSIVE KeepOthers(_, _)
KeepOthers(arr, id) ==
    IF arr = <<>> THEN <<>>
    ELSE IF heap[Head(arr)].id = id THEN KeepOthers(Tail(arr), id)
         ELSE <<Head(arr)>> \o KeepOthers(Tail(arr), id)

ClearedIsEmpty ==
    lastOp \in {"ClearStages", "ClickResetAll"}
        => stages = <<>> /\ globalGainDb = 0

\* clearStages() has just returned on a cascade that had held a stage
\* made by the page
ClearedAfterUse ==
    /\ lastOp = "ClearStages"
    /\ cards # {}

\* every order in which the active entries of arr can be chained, the
\* entries switched off staying where they are
Orders(arr) ==
    {[i \in 1..Len(arr) |-> arr[f[i]]] :
        f \in {g \in [1..Len(arr) -> 1..Len(arr)] :
                  /\ \A i, j \in 1..Len(arr) : g[i] = g[j] => i = j
                  /\ \A i \in 1..Len(arr) : ~heap[arr[i]].active => g[i] = i}}

\* two numbers of the same kind, the finite ones at most slack apart
Near(a, b, slack) ==
    /\ a.k = b.k
    /\ a.k = "fin" => Abs(a.v - b.v) <= slack

\* the complex responses of the chain at omega w, one for each order of
\* its entries
OrderResponses(w) ==
    {CascadeResponse(q, heap, globalGainDb, Fin(w)) : q \in Orders(stages)}

\* the responses in R agree to within slack
AllNear(R, slack) ==
    \A h1 \in R, h2 \in R :
        Near(h1.re, h2.re, slack) /\ Near(h1.im, h2.im, slack)

\* C11 (as stated): every order of the same stages gives exactly the same
\* complex response at every frequency
OrderIndependentExactly ==
    \A w \in Omegas : Cardinality(OrderResponses(w)) = 1

\* C11: every order of the same stages gives the same complex response at
\* every frequency up to the rounding of the products, and exactly the same
\* one when at most two stages are active
OrderIndependent ==
    \A w \in Omegas : \E R \in {OrderResponses(w)} :
        /\ AllNear(R, RoundingSlack)
        /\ Cardinality({i \in 1..Len(stages) : heap[stages[i]].active}) <= 2
              => Cardinality(R) = 1

\* three active stages are chained and two orders of them differ in the
\* last digit at some frequency
ThreeStagesRoundDifferently ==
    /\ Len(stages) = 3
    /\ \A i \in 1..3 : heap[stages[i]].active
    /\ \E w \in Omegas : Cardinality(OrderResponses(w)) > 1

\* C14: a frame changes nothing of a parameter that is not animating: its
\* value, phase and bounds stay as they are until it is started again
StoppedStaysPut ==
    [][lastOp' = "Frame" =>
          \A r \in Refs : \A n \in ParamNames(heap[r]) :
              ~heap[r][n].isAnimating => heap'[r][n] = heap[r][n]]_vars

\* a frame has just run over a parameter that was stopped in mid swing while
\* another one is animating
StoppedDuringFrame ==
    /\ lastOp = "Frame"
    /\ \E pr \in ParamsOf(InCascade) :
          ~heap[pr[1]][pr[2]].isAnimating /\ heap[pr[1]][pr[2]].phase > 0
    /\ \E pr \in ParamsOf(InCascade) : heap[pr[1]][pr[2]].isAnimating

\* the cascade holds no stage twice: a frame is one update of each parameter
EachStageOnce == \A i, j \in 1..Len(stages) : stages[i] = stages[j] => i = j

\* C15 (as stated): after an update of an animating parameter its phase is
\* in [0, 2 pi), whatever the length of the step
PhaseWithinTurn ==
    (lastOp = "Frame" /\ EachStageOnce) =>
        \A pr \in ParamsOf(InCascade) :
            heap[pr[1]][pr[2]].isAnimating =>
                /\ 0 <= heap[pr[1]][pr[2]].phase
                /\ heap[pr[1]][pr[2]].phase < Scale

\* C16: autoRange with the tolerance t of the tolerance text sets min to
\* max(0, value * (1 - t)) and max to value * (1 + t), and leaves value,
\* phase and the animating flag as they were; checked where the tolerance
\* wheel runs it on every parameter of the cascade and where a constructor
\* runs it on a new parameter
AutoRangeFramesValue ==
    [][/\ lastOp' = "ToleranceWheel" =>
             \A pr \in ParamsOf(InCascade) :
                 \E p \in {heap[pr[1]][pr[2]]}, q \in {heap'[pr[1]][pr[2]]} :
                     /\ q.min = Max(0, RoundDiv(p.value * (100 - tolText'), 100))
                     /\ q.max = RoundDiv(p.value * (100 + tolText'), 100)
                     /\ q.value = p.value
                     /\ q.phase = p.phase
                     /\ q.isAnimating = p.isAnimating
       /\ lastOp' = "NewFirstOrder" =>
             \E q \in {heap'[Len(heap')].f0} :
                 /\ q.min = Max(0, RoundDiv(q.value * (100 - tolText), 100))
                 /\ q.max = RoundDiv(q.value * (100 + tolText), 100)
                 /\ q.value \in PlayF0Inputs]_vars

\* the tolerance wheel has just run autoRange on a parameter that is
\* animating in mid swing, with a tolerance other than the default
AutoRangeInMidSwing ==
    /\ lastOp = "ToleranceWheel"
    /\ tolText # DefaultTolerance
    /\ \E pr \in ParamsOf(InCascade) :
          heap[pr[1]][pr[2]].isAnimating /\ heap[pr[1]][pr[2]].phase > 0

\* C17: after playAll every parameter of every stage of the cascade is
\* animating, after pauseAll none is, whatever the stages' flags
PlayAllPauseAll ==
    /\ lastOp = "ClickPlayAll" =>
          \A pr \in ParamsOf(InCascade) : heap[pr[1]][pr[2]].isAnimating
    /\ lastOp = "ClickPauseAll" =>
          \A pr \in ParamsOf(InCascade) : ~heap[pr[1]][pr[2]].isAnimating

\* playAll has just run over a stage that is switched off and whose two
\* parameters had been played and paused apart
PlayedWhileInactive ==
    /\ lastOp = "ClickPlayAll"
    /\ \E r \in InCascade :
          /\ ~heap[r].active
          /\ heap[r].type = "biquad"
          /\ heap[r].f0.phase # heap[r].Q.phase

\* C18 (as stated): a frame advances every parameter of every stage of the
\* cascade exactly once, by the frame's time at the cascade's speed, and
\* leaves the stage sequence and the gain alone
FrameAdvancesOnce ==
    [][\A dt \in DeltaTimes :
          Frame(dt) =>
              /\ \A pr \in ParamsOf(InCascade) :
                    heap'[pr[1]][pr[2]]
                        = update(heap[pr[1]][pr[2]], dt, animationSpeed)
              /\ stages' = stages
              /\ globalGainDb' = globalGainDb]_vars

\* the frequencies of a response array
FreqsOf(response) == [k \in 1..Len(response) |-> response[k].freq]

\* C20: for the same freqMin, freqMax and numPoints the stage's, the
\* cascade's and the solver's getFrequencyResponse sample the same
\* frequencies, point for point, and these are those of the response returned
SameFrequencyGrid ==
    sampled.call # "none" =>
        \E st \in {StageFrequencies(sampled.freqMin, sampled.freqMax,
                                    sampled.numPoints)} :
            /\ CascadeFrequencies(sampled.freqMin, sampled.freqMax,
                                  sampled.numPoints) = st
            /\ SolverFrequencies(sampled.freqMin, sampled.freqMax,
                                 sampled.numPoints) = st
            /\ FreqsOf(sampled.response) = st

\* the solver's response has just been sampled at three points from below
\* the clamp of freqMin, and the points are numbers that differ
SolverSampledFromClamp ==
    /\ sampled.call = "solver"
    /\ sampled.freqMin = 0
    /\ sampled.numPoints = 2
    /\ \A k \in 1..3 : sampled.response[k].freq.k = "fin"
    /\ sampled.response[1].freq.v < sampled.response[2].freq.v
    /\ sampled.response[2].freq.v < sampled.response[3].freq.v

\* the stage objects a result holds, identities included
StagesOf(refs, h) == [k \in 1..Len(refs) |-> h[refs[k]]]

Ascending(response) ==
    \A k \in 1..(Len(response) - 1) :
        JLt(response[k].freq, response[k + 1].freq)

\* C21: the cascade's getFrequencyResponse returns numPoints + 1 samples in
\* ascending order of frequency, the first at max(freqMin, 0.001) and the
\* last at freqMax (to within the rounding of the logarithm and the power),
\* for every numPoints >= 0 and freqMax above the clamped freqMin
SampledGridEnds ==
    (/\ sampled.call = "cascade"
     /\ sampled.freqMax > Max(1, sampled.freqMin))
        => /\ Len(sampled.response) = sampled.numPoints + 1
           /\ Ascending(sampled.response)
           /\ Near(sampled.response[1].freq,
                   Fin(Max(1, sampled.freqMin)), RoundingSlack)
           /\ Near(sampled.response[Len(sampled.response)].freq,
                   Fin(sampled.freqMax), RoundingSlack)

\* the same for the calls that ask for one interval or more
SampledGridEndsFromOne ==
    sampled.numPoints >= 1 => SampledGridEnds

\* C22: the cascade's getFrequencyResponse leaves the cascade, its stages and
\* their parameters as they were, and called again on the same arguments with
\* nothing done in between it returns the array it returned before
SamplingIsPure ==
    [][lastOp' = "CallCascadeGetFrequencyResponse"
          => /\ heap' = heap
             /\ stages' = stages
             /\ globalGainDb' = globalGainDb
             /\ animationSpeed' = animationSpeed
             /\ nextId' = nextId
             /\ (/\ lastOp = "CallCascadeGetFrequencyResponse"
                 /\ <<sampled'.freqMin, sampled'.freqMax, sampled'.numPoints>>
                        = <<sampled.freqMin, sampled.freqMax, sampled.numPoints>>)
                    => sampled'.response = sampled.response]_vars

\* a cascade of one stage in mid swing, with a gain set, has been sampled
\* twice running at three points, and the samples are numbers
SampledTwice ==
    /\ lastOp = "CallCascadeGetFrequencyResponse"
    /\ sampled.calls = 2
    /\ sampled.numPoints = 2
    /\ globalGainDb # 0
    /\ \E r \in InCascade : \E n \in ParamNames(heap[r]) :
          heap[r][n].isAnimating /\ heap[r][n].phase # 0
    /\ \A k \in 1..3 : sampled.response[k].magnitude.k = "fin"
    /\ sampled.response[1].magnitude # sampled.response[3].magnitude

\* magnitude >= 0, magnitudeDb a number >= -200, and exactly -200 when the
\* magnitude is at or below the floor
MagnitudeInBounds(mag, db) ==
    /\ JLe(Fin(0), mag)
    /\ db.k = "fin"
    /\ db.v >= -200 * Scale
    /\ JLe(mag, Tiny) => db = Fin(-200 * Scale)

\* magnitudeDb alone: a number >= -200, and exactly -200 when the magnitude
\* is at or below the floor or is not a number
MagnitudeDbInBounds(mag, db) ==
    /\ db.k \in {"fin", "inf"}
    /\ JLe(Fin(-200 * Scale), db)
    /\ ~JGt(mag, Tiny) => db = Fin(-200 * Scale)

\* C23: for every stage and the cascade, at every frequency >= 0, magnitude
\* is >= 0 and magnitudeDb is >= -200, exactly -200 when magnitude <= 1e-10,
\* and never -Infinity or NaN
MagnitudeBounds ==
    \A omega \in Omegas :
        /\ \A r \in Refs :
              MagnitudeInBounds(StageMagnitude(heap[r], Fin(omega)),
                                MagnitudeDb(StageMagnitude(heap[r], Fin(omega))))
        /\ MagnitudeInBounds(
               CascadeMagnitude(stages, heap, globalGainDb, Fin(omega)),
               CascadeMagnitudeDb(stages, heap, globalGainDb, Fin(omega)))

\* the half of it that is about magnitudeDb
MagnitudeDbBounds ==
    \A omega \in Omegas :
        /\ \A r \in Refs :
              MagnitudeDbInBounds(StageMagnitude(heap[r], Fin(omega)),
                                  MagnitudeDb(StageMagnitude(heap[r], Fin(omega))))
        /\ MagnitudeDbInBounds(
               CascadeMagnitude(stages, heap, globalGainDb, Fin(omega)),
               CascadeMagnitudeDb(stages, heap, globalGainDb, Fin(omega)))

\* magnitude >= 0 where every parameter of every stage is positive
MagnitudeBoundsOfPositive ==
    (\A r \in Refs : \A n \in ParamNames(heap[r]) : heap[r][n].value > 0)
        => MagnitudeBounds

\* a < 0 and a == b on floating-point numbers
FLt0(a) == a.k # "nan" /\ ~FIsZero(a) /\ a.s = -1
FEq(a, b) == a.k # "nan" /\ a = b

\* the second-order stage getPoles was last called on, if any
PolesStage == heap[gotPoles.target[1]]
PolesOfBiquad ==
    /\ gotPoles.target # <<>>
    /\ PolesStage.type = "biquad"
    /\ PolesStage.f0.value > 0
    /\ PolesStage.Q.value > 0

\* two poles that are complex conjugates with imaginary parts that are not 0
ConjugatePair(ps) ==
    /\ Len(ps) = 2
    /\ FEq(ps[1].re, ps[2].re)
    /\ ~FIsZero(ps[1].im) /\ ~FIsZero(ps[2].im)
    /\ FEq(ps[2].im, FNeg(ps[1].im))
    /\ ps[1].im.s # ps[2].im.s

\* two real poles
RealPoles(ps) == Len(ps) = 2 /\ FIsZero(ps[1].im) /\ FIsZero(ps[2].im)

PolesInLeftHalfPlane ==
    PolesOfBiquad =>
        \A k \in 1..Len(gotPoles.result) : FLt0(gotPoles.result[k].re)

\* the same where Q is 0.4 or more
PolesInLeftHalfPlaneFromModerateQ ==
    (PolesOfBiquad /\ PolesStage.Q.value >= 400) => PolesInLeftHalfPlane

\* a specification getMinOrder has an order for: ws > wp, Ap > 0, and the
\* argument of the acosh at 1 or more
Feasible(wp, ws, Ap, As) ==
    /\ ws > wp
    /\ Ap > 0
    /\ \E A \in {JPow10(JDiv(Fin(As), Fin(20 * Scale)))} :
          JLe(Fin(Scale),
              JDiv(JSqrt(JSub(JMul(A, A), Fin(Scale))), Epsilon(Fin(Ap))))

\* C26: over feasible specifications getMinOrder does not decrease when As
\* increases with wp, ws, Ap fixed, and does not increase when ws / wp
\* increases with Ap, As fixed
MinOrderMonotone ==
    [][(/\ lastOp' = "CallGetMinOrder"
        /\ solved.call = "getMinOrder"
        /\ Feasible(solved.wp, solved.ws, solved.Ap, solved.As)
        /\ Feasible(solved'.wp, solved'.ws, solved'.Ap, solved'.As))
          => /\ (/\ <<solved'.wp, solved'.ws, solved'.Ap>>
                       = <<solved.wp, solved.ws, solved.Ap>>
                 /\ solved'.As >= solved.As)
                    => JLe(solved.order, solved'.order)
             /\ (/\ <<solved'.Ap, solved'.As>> = <<solved.Ap, solved.As>>
                 /\ JLe(JDiv(Fin(solved.ws), Fin(solved.wp)),
                        JDiv(Fin(solved'.ws), Fin(solved'.wp))))
                    => JLe(solved'.order, solved.order)]_vars

\* a second call has returned order 4 for wp = 1, ws = 2, Ap = 3, As = 30,
\* where a lower As gives a lower order and a higher ratio a lower order too
OrderComparedAgain ==
    /\ lastOp = "CallGetMinOrder"
    /\ solved.calls = 2
    /\ <<solved.wp, solved.ws, solved.Ap, solved.As>> = <<1000, 2000, 3000, 30000>>
    /\ solved.order = Fin(4 * Scale)
    /\ \E As \in MonoAsInputs :
          /\ As < solved.As
          /\ Feasible(solved.wp, solved.ws, solved.Ap, As)
          /\ JLt(getMinOrder(Fin(solved.wp), Fin(solved.ws), Fin(solved.Ap),
                             Fin(As)), solved.order)
    /\ \E ws \in MonoWsInputs :
          /\ ws > solved.ws
          /\ JLt(getMinOrder(Fin(solved.wp), Fin(ws), Fin(solved.Ap),
                             Fin(solved.As)), solved.order)

\* ---------------------------------------------------------------------------
\* The leaderboard in localStorage
\* ---------------------------------------------------------------------------

\* slice(0, 10): the entries the leaderboard keeps
LeaderboardSize == 10

DigitChars == <<"0", "1", "2", "3", "4", "5", "6", "7", "8", "9">>

\* the decimal digits of a natural number, as JSON.stringify writes them
RECURSIVE DigitsOf(_)
DigitsOf(n) ==
    IF n < 10 THEN <<DigitChars[n + 1]>>
    ELSE Append(DigitsOf(n \div 10), DigitChars[(n % 10) + 1])

\* JSON.stringify of a number that is an integer
JSONStringifyNumber(n) == IF n < 0 THEN <<"-">> \o DigitsOf(-n) ELSE DigitsOf(n)

\* JSON.stringify(top10): each entry's score becomes its text
JSONStringify(lb) ==
    [i \in 1..Len(lb) |->
        [name |-> lb[i].name, score |-> JSONStringifyNumber(lb[i].score)]]

IsDigitChar(c) == \E d \in 1..10 : DigitChars[d] = c

DigitValue(c) == (CHOOSE d \in 1..10 : DigitChars[d] = c) - 1

\* the value of the longest prefix of digits of text, and NaN when it is empty
RECURSIVE ParseDigits(_, _, _)
ParseDigits(text, acc, seen) ==
    IF text = <<>> \/ ~IsDigitChar(Head(text))
    THEN IF seen THEN [k |-> "fin", v |-> acc] ELSE [k |-> "nan", v |-> 0]
    ELSE ParseDigits(Tail(text), 10 * acc + DigitValue(Head(text)), TRUE)

\* parseInt(text, 10): an optional sign, then digits
parseInt(text) ==
    IF text # <<>> /\ Head(text) = "-"
    THEN Only({ IF p.k = "fin" THEN [p EXCEPT !.v = -p.v] ELSE p :
                p \in {ParseDigits(Tail(text), 0, FALSE)} })
    ELSE ParseDigits(text, 0, FALSE)

\* getLeaderboard: JSON.parse, then e.score = parseInt(e.score, 10) || 0
getLeaderboard(stored) ==
    [i \in 1..Len(stored) |->
        [name |-> stored[i].name,
         score |-> Only({ IF p.k = "fin" THEN p.v ELSE 0 :
                          p \in {parseInt(stored[i].score)} })]]

\* lb.sort((a, b) => b.score - a.score): a stable sort, an entry goes after
\* the entries that compare as not after it
RECURSIVE InsertByScore(_, _)
InsertByScore(sortedLb, e) ==
    IF sortedLb = <<>> THEN <<e>>
    ELSE IF e.score - Head(sortedLb).score > 0
         THEN <<e>> \o sortedLb
         ELSE <<Head(sortedLb)>> \o InsertByScore(Tail(sortedLb), e)

RECURSIVE SortByScore(_)
SortByScore(lb) ==
    IF lb = <<>> THEN <<>>
    ELSE InsertByScore(SortByScore(SubSeq(lb, 1, Len(lb) - 1)), lb[Len(lb)])

\* slice(0, n)
Slice(lb, n) == SubSeq(lb, 1, IF Len(lb) < n THEN Len(lb) ELSE n)

\* saveScore with the sort left out
saveScoreUnsorted(stored, name, score) ==
    JSONStringify(Slice(Append(getLeaderboard(stored),
                               [name |-> name, score |-> score]),
                        LeaderboardSize))

\* saveScore(name, score): what localStorage holds afterwards
saveScore(stored, name, score) ==
    JSONStringify(Slice(SortByScore(Append(getLeaderboard(stored),
                                           [name |-> name, score |-> score])),
                        LeaderboardSize))

\* isHighScore(score)
isHighScore(stored, score) ==
    IF score <= 0 THEN FALSE
    ELSE Only({ IF Len(lb) < LeaderboardSize THEN TRUE
                ELSE score > lb[Len(lb)].score :
                lb \in {getLeaderboard(stored)} })

\* the names and the final scores the leaderboard is driven with
LeaderEntries == {[name |-> "ANONYMOUS", score |-> 1000],
                  [name |-> "NB", score |-> 1300],
                  [name |-> "ANONYMOUS", score |-> 1600]}

\* game.saveScore(name, score)
CallSaveScore(name, score) ==
    /\ storage' = saveScore(storage, name, score)
    /\ saved' = [before |-> storage,
                 entry |-> <<[name |-> name, score |-> score]>>]
    /\ thrown' = "none"
    /\ lastOp' = "CallSaveScore"
    /\ UNCHANGED <<game, intervals, popups, rendered>>
    /\ UNCHANGED <<stages, globalGainDb, cards>>
    /\ UNCHANGED filterVars

LeaderNext ==
    \E e \in LeaderEntries : CallSaveScore(e.name, e.score)

LeaderSpec == Init /\ [][LeaderNext]_vars

\* how many entries of lb have the score v
CountScore(lb, v) == Cardinality({i \in 1..Len(lb) : lb[i].score = v})

\* the n highest scores of lb, with their multiplicities: of each score as
\* many as fit after all the higher ones
TopCount(lb, n, v) ==
    Only({ IF n - above <= 0 THEN 0
           ELSE IF CountScore(lb, v) < n - above THEN CountScore(lb, v)
           ELSE n - above :
           above \in {Cardinality({i \in 1..Len(lb) : lb[i].score > v})} })

StoredDescending ==
    \A i \in 1..(Len(storage) - 1) :
        getLeaderboard(storage)[i].score >= getLeaderboard(storage)[i + 1].score

\* C27: after any sequence of saveScore calls the stored leaderboard has at
\* most 10 entries, is sorted by descending score, and holds the highest
\* scores among the entries stored before the last call and the entry that
\* call saved
LeaderboardKeepsTop ==
    /\ Len(storage) <= LeaderboardSize
    /\ StoredDescending
    /\ saved.entry # <<>> =>
        \E all \in {Append(getLeaderboard(saved.before), saved.entry[1])} :
            /\ Len(storage) = (IF Len(all) < LeaderboardSize THEN Len(all)
                               ELSE LeaderboardSize)
            /\ \A i \in 1..Len(all) :
                   CountScore(getLeaderboard(storage), all[i].score)
                       = TopCount(all, LeaderboardSize, all[i].score)
            /\ \A i \in 1..Len(storage) :
                   \E j \in 1..Len(all) : getLeaderboard(storage)[i] = all[j]

\* a full leaderboard took a score above its lowest one, and dropped that one
LeaderboardDisplaced ==
    /\ Len(saved.before) = LeaderboardSize
    /\ saved.entry # <<>>
    /\ saved.entry[1] = [name |-> "NB", score |-> 1300]
    /\ getLeaderboard(saved.before)[LeaderboardSize].score = 1000
    /\ getLeaderboard(saved.before)[1] = [name |-> "ANONYMOUS", score |-> 1600]
    /\ getLeaderboard(storage)[2] = saved.entry[1]
    /\ CountScore(getLeaderboard(storage), 1000)
           = CountScore(getLeaderboard(saved.before), 1000) - 1
    /\ CountScore(getLeaderboard(storage), 1300) = 1

\* ---------------------------------------------------------------------------
\* The game: modes, rounds, the round timer and the victory countdown
\* ---------------------------------------------------------------------------

\* this.timeRemaining = 60
RoundTime == 60

\* let count = 3
VictoryCount == 3

\* The operators below take and return the world w = [game, intervals].

\* clearInterval(id); clearInterval(null) and an id already cleared do nothing
clearInterval(iv, id) == [iv EXCEPT !.active = {t \in @ : t.id # id}]

\* setInterval(callback, 1000): kind names the callback, count is the
\* countdown's local variable
setInterval(iv, kind) ==
    [next |-> iv.next + 1,
     active |-> iv.active \cup
                {[id |-> iv.next, kind |-> kind,
                  count |-> IF kind = "countdown" THEN VictoryCount ELSE 0]}]

\* if (this.timerInterval) clearInterval(this.timerInterval)
clearTimer(w) ==
    IF w.game.timerInterval # 0
    THEN [w EXCEPT !.intervals = clearInterval(@, w.game.timerInterval)]
    ELSE w

\* generateConstraints: minOrder = floor(baseMinOrder + (round - 1) * 0.5);
\* the random wp, ws and As are read by checkConstraints only
generateConstraints(g) ==
    [g EXCEPT !.constraints = <<[minOrder |-> (4 + (g.round - 1)) \div 2]>>]

\* startChallenge(subMode)
startChallenge(w, subMode) ==
    clearTimer([w EXCEPT !.game.mode = IF subMode = "zen" THEN "zen" ELSE "challenge",
                         !.game.subMode = subMode,
                         !.game.round = 1,
                         !.game.score = 0,
                         !.game.isGameOver = FALSE,
                         !.game.isPaused = FALSE])

\* startRound()
startRound(w) ==
    Only({ IF c.game.subMode = "hardcore"
           THEN [game |-> [c.game EXCEPT !.timerInterval = c.intervals.next],
                 intervals |-> setInterval(c.intervals, "timer")]
           ELSE c :
           c \in {clearTimer([w EXCEPT !.game = generateConstraints(
                                 [@ EXCEPT !.timeRemaining = RoundTime])])} })

\* skipLevel()
skipLevel(w) == IF w.game.subMode # "zen" THEN w ELSE startRound(w)

\* endGame(): clearInterval(this.timerInterval) without the null test
endGame(w) ==
    [game |-> [w.game EXCEPT !.isGameOver = TRUE, !.isPaused = TRUE],
     intervals |-> clearInterval(w.intervals, w.game.timerInterval)]

\* the roundScore of completeRound
roundScore(g, stageCount) ==
    IF g.subMode = "hardcore"
    THEN Max(0, 1000 + g.timeRemaining * 10
                - Max(0, (stageCount - g.constraints[1].minOrder) * 50))
    ELSE 0

\* completeRound(cascade, uiCallback), the callback apart
completeRound(w, stageCount) ==
    [game |-> [w.game EXCEPT !.isPaused = TRUE,
                             !.score = @ + roundScore(w.game, stageCount)],
     intervals |-> clearInterval(w.intervals, w.game.timerInterval)]

\* proceedToNextRound()
proceedToNextRound(w) ==
    startRound([w EXCEPT !.game.round = @ + 1, !.game.isPaused = FALSE])

\* gameOver(uiCallback), the callback apart
gameOver(w) ==
    [game |-> [w.game EXCEPT !.isGameOver = TRUE, !.isPaused = TRUE],
     intervals |-> clearInterval(w.intervals, w.game.timerInterval)]

\* the part of setMode(mode) that touches the game and its timers
setMode(w, mode) ==
    Only({ IF mode = "challenge" THEN startChallenge(c, "hardcore")
           ELSE [c EXCEPT !.game.constraints = <<>>] :
           c \in {[clearTimer(w) EXCEPT !.game.mode = mode]} })

World == [game |-> game, intervals |-> intervals]

\* the cascade's order: one per first-order stage, two per second-order one
CascadeOrder == Len(stages) + Cardinality({i \in 1..Len(stages) :
                                              heap[stages[i]].type # "pole"})

\* What checkConstraints can answer.  The constraints ask for at least 25 dB
\* at ws < 3 wp with no more than 3 dB of passband droop and no gain above
\* 0 dB; the best second-order response gives 10 log10(1 + T2(3)^2) = 24.6 dB,
\* so a cascade of order below three cannot meet them, and without
\* constraints checkConstraints returns false.
CanMeet == game.constraints # <<>> /\ CascadeOrder >= 3

\* showGameOver(): gameOver, the popup, and the name entry for a high score
showGameOver(w, pop) ==
    [world |-> gameOver(w),
     popups |-> IF isHighScore(storage, w.game.score)
                THEN ((pop \cup {"gameover-popup", "high-score-entry"})
                        \ {"gameover-buttons"})
                ELSE ((pop \cup {"gameover-popup", "gameover-buttons"})
                        \ {"high-score-entry"}),
     completed |-> 0]

\* showVictory(): completeRound, the popup, and the countdown interval
showVictory(w, pop) ==
    Only({ [world |-> [c EXCEPT !.intervals = setInterval(@, "countdown")],
            popups |-> pop \cup {"victory-popup"},
            completed |-> 1] :
           c \in {completeRound(w, Len(stages))} })

\* render() without the game-over branch
renderNoGameOver(w, pop, meets) ==
    IF w.game.isPaused THEN [world |-> w, popups |-> pop, completed |-> 0]
    ELSE IF w.game.mode = "challenge" /\ w.game.constraints # <<>>
         THEN IF ~w.game.isGameOver /\ meets THEN showVictory(w, pop)
              ELSE [world |-> w, popups |-> pop, completed |-> 0]
         ELSE [world |-> w, popups |-> pop, completed |-> 0]

\* render(): the challenge logic after the drawing; meets is what
\* checkConstraints returns when it is called
render(w, pop, meets) ==
    IF w.game.isPaused THEN [world |-> w, popups |-> pop, completed |-> 0]
    ELSE IF w.game.mode = "challenge" /\ w.game.constraints # <<>>
         THEN IF w.game.isGameOver THEN showGameOver(w, pop)
              ELSE IF meets THEN showVictory(w, pop)
              ELSE [world |-> w, popups |-> pop, completed |-> 0]
         ELSE [world |-> w, popups |-> pop, completed |-> 0]

\* a round is on: constraints are set and the game neither paused nor over
RoundRunning == game.constraints # <<>> /\ ~game.isPaused /\ ~game.isGameOver

\* a round starts: no completeRound call for it yet
NewRound == [met |-> FALSE, completions |-> 0]

\* cascade.clearStages(); this.stagesList.innerHTML = ''
ClearBoard ==
    /\ stages' = clearStages(globalGainDb).stages
    /\ globalGainDb' = clearStages(globalGainDb).globalGainDb
    /\ cards' = {}

\* the mode buttons: setMode(mode)
ClickMode(mode) ==
    /\ IF game.mode # mode THEN ClearBoard
       ELSE UNCHANGED <<stages, globalGainDb, cards>>
    /\ game' = setMode(World, mode).game
    /\ intervals' = setMode(World, mode).intervals
    /\ popups' = IF mode = "challenge"
                 THEN popups \cup {"challenge-start-popup"}
                 ELSE popups
    /\ thrown' = "none"
    /\ lastOp' = "ClickMode"
    /\ UNCHANGED <<storage, rendered, saved>>
    /\ UNCHANGED filterVars

\* btn-start-zen and btn-start-hardcore: startChallenge(subMode); startRound()
ClickStart(subMode) ==
    /\ "challenge-start-popup" \in popups
    /\ game' = startRound(startChallenge(World, subMode)).game
    /\ intervals' = startRound(startChallenge(World, subMode)).intervals
    /\ popups' = popups \ {"challenge-start-popup"}
    /\ rendered' = NewRound
    /\ thrown' = "none"
    /\ lastOp' = "ClickStart"
    /\ UNCHANGED <<storage, saved, stages, globalGainDb, cards>>
    /\ UNCHANGED filterVars

\* btn-end-game
ClickEndGame ==
    /\ IF game.mode = "challenge"
       THEN /\ game' = showGameOver(endGame(World), popups).world.game
            /\ intervals' = showGameOver(endGame(World), popups).world.intervals
            /\ popups' = showGameOver(endGame(World), popups).popups
       ELSE UNCHANGED <<game, intervals, popups>>
    /\ thrown' = "none"
    /\ lastOp' = "ClickEndGame"
    /\ UNCHANGED <<storage, rendered, saved, stages, globalGainDb, cards>>
    /\ UNCHANGED filterVars

\* btn-skip-level: skipLevel, clearStages, render on the empty cascade
ClickSkipLevel ==
    /\ IF game.mode = "challenge" /\ game.subMode = "zen"
       THEN /\ ClearBoard
            /\ game' = render(skipLevel(World), popups, FALSE).world.game
            /\ intervals' = render(skipLevel(World), popups, FALSE).world.intervals
            /\ popups' = render(skipLevel(World), popups, FALSE).popups
            /\ rendered' = NewRound
       ELSE UNCHANGED <<game, intervals, popups, rendered, stages,
                        globalGainDb, cards>>
    /\ thrown' = "none"
    /\ lastOp' = "ClickSkipLevel"
    /\ UNCHANGED <<storage, saved>>
    /\ UNCHANGED filterVars

\* btn-popup-restart, shown with the game-over buttons
ClickPopupRestart ==
    /\ {"gameover-popup", "gameover-buttons"} \subseteq popups
    /\ ClearBoard
    /\ game' = startChallenge(World, "hardcore").game
    /\ intervals' = startChallenge(World, "hardcore").intervals
    /\ popups' = (popups \ {"gameover-popup"}) \cup {"challenge-start-popup"}
    /\ thrown' = "none"
    /\ lastOp' = "ClickPopupRestart"
    /\ UNCHANGED <<storage, rendered, saved>>
    /\ UNCHANGED filterVars

\* submitHighScore, from the name entry of the game-over popup
SubmitHighScore(name) ==
    /\ {"gameover-popup", "high-score-entry"} \subseteq popups
    /\ storage' = saveScore(storage, name, game.score)
    /\ saved' = [before |-> storage,
                 entry |-> <<[name |-> name, score |-> game.score]>>]
    /\ popups' = (popups \ {"high-score-entry"}) \cup {"gameover-buttons"}
    /\ thrown' = "none"
    /\ lastOp' = "SubmitHighScore"
    /\ UNCHANGED <<game, intervals, rendered, stages, globalGainDb, cards>>
    /\ UNCHANGED filterVars

\* the round timer's callback, set in startRound
TimerTick(t) ==
    /\ t \in intervals.active
    /\ t.kind = "timer"
    /\ IF game.isPaused
       THEN UNCHANGED <<game, intervals>>
       ELSE /\ game' = [game EXCEPT !.timeRemaining = @ - 1,
                                    !.isGameOver = IF game.timeRemaining - 1 <= 0
                                                   THEN TRUE ELSE @]
            /\ intervals' = IF game.timeRemaining - 1 <= 0
                            THEN clearInterval(intervals, game.timerInterval)
                            ELSE intervals
    /\ thrown' = "none"
    /\ lastOp' = "TimerTick"
    /\ UNCHANGED <<popups, storage, rendered, saved, stages, globalGainDb, cards>>
    /\ UNCHANGED filterVars

\* the victory countdown's callback, set in showVictory
CountdownTick(t) ==
    /\ t \in intervals.active
    /\ t.kind = "countdown"
    /\ IF t.count - 1 > 0
       THEN /\ intervals' = [intervals EXCEPT !.active =
                                (@ \ {t}) \cup {[t EXCEPT !.count = @ - 1]}]
            /\ UNCHANGED <<game, popups, rendered, stages, globalGainDb, cards>>
       ELSE /\ ClearBoard
            /\ popups' = popups \ {"victory-popup"}
            /\ game' = proceedToNextRound(
                           [World EXCEPT !.intervals = clearInterval(@, t.id)]).game
            /\ intervals' = proceedToNextRound(
                           [World EXCEPT !.intervals = clearInterval(@, t.id)]).intervals
            /\ rendered' = NewRound
    /\ thrown' = "none"
    /\ lastOp' = "CountdownTick"
    /\ UNCHANGED <<storage, saved>>
    /\ UNCHANGED filterVars

\* one turn of the main loop with a game on: updateAnimations, then render
\* with its challenge logic; meets is whether the cascade satisfies the
\* constraints at this render
LoopFrame(deltaTime, meets) ==
    /\ meets => CanMeet
    /\ heap' = updateAnimations(stages, heap, deltaTime, animationSpeed)
    /\ game' = render(World, popups, meets).world.game
    /\ intervals' = render(World, popups, meets).world.intervals
    /\ popups' = render(World, popups, meets).popups
    /\ rendered' = [met |-> meets /\ RoundRunning,
                    completions |-> rendered.completions
                                      + render(World, popups, meets).completed]
    /\ thrown' = "none"
    /\ lastOp' = "LoopFrame"
    /\ UNCHANGED <<storage, saved, stages, globalGainDb, cards>>
    /\ UNCHANGED <<nextId, animationSpeed, tolText, scrollSensitivity,
                   speedText, wheelEvents, solved, sampled, gotPoles>>

\* the stages created, the intervals set and the timer ticks of a game
MaxGameCreated == 2
MaxGameIntervals == 3
MaxGameTicks == 1

GameModes == {"sandbox", "challenge", "leaderboard"}
GameSubModes == {"zen", "hardcore"}
GameNames == {"ANONYMOUS"}

GameNext ==
    \/ /\ Len(heap) < MaxGameCreated
       /\ ClickAddBiquad
    \/ \E mode \in GameModes : ClickMode(mode)
    \/ /\ intervals.next <= MaxGameIntervals
       /\ \E subMode \in GameSubModes : ClickStart(subMode)
    \/ ClickEndGame
    \/ ClickSkipLevel
    \/ ClickPopupRestart
    \/ /\ storage = <<>>
       /\ \E name \in GameNames : SubmitHighScore(name)
    \/ /\ game.timeRemaining > RoundTime - MaxGameTicks
       /\ \E t \in intervals.active : TimerTick(t)
    \/ /\ intervals.next <= MaxGameIntervals
       /\ \E t \in intervals.active : CountdownTick(t)
    \/ /\ intervals.next <= MaxGameIntervals
       /\ \E dt \in DeltaTimes, meets \in BOOLEAN :
             PhaseWithin(dt, MaxPhase) /\ LoopFrame(dt, meets)

GameSpec == CascadeInit /\ [][GameNext]_vars

\* the stages created in a hardcore round that is left to run out
MaxHardcoreCreated == 1

\* a hardcore game in which the constraints are never met and the player
\* stays in the round: the player enters the challenge, starts it, builds,
\* and the timer and the main loop run
HardcoreNext ==
    \/ /\ game.mode # "challenge"
       /\ ClickMode("challenge")
    \/ /\ intervals.next = 1
       /\ ClickStart("hardcore")
    \/ /\ Len(heap) < MaxHardcoreCreated
       /\ ClickAddBiquad
    \/ \E t \in intervals.active : TimerTick(t)
    \/ \E dt \in DeltaTimes : PhaseWithin(dt, MaxPhase) /\ LoopFrame(dt, FALSE)

\* setInterval calls the timer every second until it is cleared, and
\* requestAnimationFrame keeps the main loop turning
HardcoreSpec ==
    /\ CascadeInit
    /\ [][HardcoreNext]_vars
    /\ WF_vars(\E t \in intervals.active : TimerTick(t))
    /\ WF_vars(\E dt \in DeltaTimes : PhaseWithin(dt, MaxPhase) /\ LoopFrame(dt, FALSE))

TimerRunning == \E t \in intervals.active : t.kind = "timer"

\* the mode is sandbox or leaderboard, or the game is over
GameIdle == game.mode \in {"sandbox", "leaderboard"} \/ game.isGameOver

\* C28: whenever the mode is sandbox or leaderboard, or isGameOver is true,
\* no round timer is running and the round counter does not change, whatever
\* the order of the mode clicks, End Game and the ticks of the victory
\* countdown
IdleGameIsStill ==
    /\ [](GameIdle => ~TimerRunning)
    /\ [][(GameIdle /\ GameIdle') => game'.round = game.round]_vars

\* C29: in the hardcore and the zen sub-mode, a render that comes in a
\* running round with the cascade meeting the round's constraints completes
\* the round: completeRound has then run exactly once for the round (and the
\* countdown it starts advances the round by one)
MetRoundIsCompleted ==
    (lastOp = "LoopFrame" /\ rendered.met /\ game.subMode \in GameSubModes)
        => rendered.completions = 1

HardcoreRoundOn ==
    game.subMode = "hardcore" /\ game.mode = "challenge" /\ RoundRunning

GameOverShown ==
    /\ game.timeRemaining = 0
    /\ ~TimerRunning
    /\ game.isGameOver
    /\ "gameover-popup" \in popups

\* C30: in a hardcore round timeRemaining stays in 0..60, a timer tick takes
\* exactly 1 from it when the game is not paused and nothing when it is, and
\* when the constraints are never met and the player stays, timeRemaining
\* reaches 0, the timer is stopped, isGameOver is true and the next render
\* shows the game-over popup
HardcoreRunsOut ==
    /\ [](game.subMode = "hardcore"
            => (0 <= game.timeRemaining /\ game.timeRemaining <= RoundTime))
    /\ [][lastOp' = "TimerTick"
            => game'.timeRemaining = (IF game.isPaused THEN game.timeRemaining
                                      ELSE game.timeRemaining - 1)]_vars
    /\ [][(lastOp' = "TimerTick" /\ game'.timeRemaining = 0)
            => (game'.isGameOver /\ ~TimerRunning')]_vars
    /\ [][(lastOp' = "LoopFrame" /\ game.isGameOver /\ game.timeRemaining = 0)
            => "gameover-popup" \in popups']_vars
    /\ HardcoreRoundOn ~> GameOverShown

\* the timer ran from 60 down to 0 and the render after it showed the popup
RanOutAndShown ==
    /\ GameOverShown
    /\ lastOp = "LoopFrame"
    /\ game.isPaused
    /\ game.round = 1
    /\ game.score = 0

============================================================================
